---- MODULE Spec2Model ----
(***************************************************************************)
(* A model of the URL shortener: the in-memory / JSON-file mapping store   *)
(* (package jsondb, embedded by memorystorage), the shortening service     *)
(* (package service) and the asynchronous deletion queue (package          *)
(* urlsremover).                                                           *)
(*                                                                         *)
(* Go strings are TLA+ strings, Go maps are functions with a finite        *)
(* DOMAIN, Go slices are sequences.  Reading a missing key of a Go map     *)
(* yields the zero value of the element type; Lookup models that.          *)
(***************************************************************************)
EXTENDS Integers, Sequences, FiniteSets, TLC

VARIABLES
    Cache,          \* jsondb.CacheStruct: the six maps of the store
    nextUUID,       \* how many version-4 UUIDs uuid.New() has handed out
    resp,           \* what the last completed service / store call returned
    issued,         \* history: full URL -> the short URL its first shorten returned
    pendingJob,     \* per caller: the short keys EnqueueJob has still to send
    queue,          \* URLsRemover.queue, a buffered channel of tasks
    tasks,          \* per consumer goroutine: its local batch (var tasks []task)
    errorChannel,   \* URLsRemover.errorChannel, a buffered channel of errors
    pc,             \* per consumer goroutine: where it is in the loop of Run
    ctxDone,        \* whether the context handed to Run has been cancelled
    flushArg,       \* per consumer goroutine: the map handed to its RemoveUsersUrls
                    \* call in progress, if any
    Tables,         \* the relational backend: the rows of its three tables
    inflight        \* per request goroutine: where its ShortenURL call is, and
                    \* the call's local variables

vars == <<Cache, nextUUID, resp, issued, pendingJob, queue, tasks, errorChannel,
          pc, ctxDone, flushArg, Tables, inflight>>

storeVars == <<Cache, nextUUID, resp, issued>>
queueVars == <<pendingJob, queue, tasks, errorChannel, pc, ctxDone, flushArg>>
otherVars == <<Tables, inflight>>

----------------------------------------------------------------------------
(* Bounds and universes of the inputs.                                     *)

\* Most users created.
MaxUsers == 3
\* Most ownership entries (items of the slices of UsersIdsToUrlsMap) explored.
MaxOwned == 3
\* Longest batch the consumer is let to accumulate between flushes.
MaxTasks == 2
\* Capacity of both channels (config ChannelCapacity; 1024 by default).
channelCapacity == 1

Users == {"U1", "U2"}
\* Valid absolute URLs, as the handlers let through (never the empty string).
URL1 == "https://a.io/1"
URL2 == "https://a.io/2"
URLs == {URL1, URL2}
\* The lists of URLs a caller may hand over in one call: one URL, two URLs in
\* either order, a URL twice, a URL again after another.
URLLists == {<<URL1>>, <<URL2>>, <<URL1, URL2>>, <<URL2, URL1>>, <<URL1, URL1>>,
             <<URL1, URL2, URL1>>}
\* The values uuid.New().String() returns, in the order it returns them.
UUIDs == <<"k1", "k2", "k3", "k4", "k5", "k6", "k7", "k8">>
\* Short keys a caller may name in a store call or a delete request; either may
\* have a mapping in the store or none.
Keys == {"k1", "k2"}

\* The zero value of a Go string, and a nil error.
ZeroStr == ""
Nil == "nil"
ErrConflict == "URL already shortened"
ErrURLMarkedAsDeleted == "the URL marked as deleted"
ErrStore == "store error"

----------------------------------------------------------------------------
(* Go maps and slices.                                                     *)

EmptyMap == [x \in {} |-> ZeroStr]

\* m[k] of a map[string]string: the zero value when k is absent.
Lookup(m, k) == IF k \in DOMAIN m THEN m[k] ELSE ZeroStr

\* m[k] of a map[string][]string: nil when k is absent.
LookupSlice(m, k) == IF k \in DOMAIN m THEN m[k] ELSE <<>>

\* m[k] of a map[string]bool: false when k is absent.
LookupBool(m, k) == IF k \in DOMAIN m THEN m[k] ELSE FALSE

\* m[k] = v
Put(m, k, v) == [x \in DOMAIN m \cup {k} |-> IF x = k THEN v ELSE m[x]]

\* funk.Contains(slice, x)
Contains(s, x) == \E i \in 1..Len(s) : s[i] = x

Range(s) == {s[i] : i \in 1..Len(s)}

\* Sequences over S of length lo..hi.
SeqsOf(S, lo, hi) == UNION {[1..n -> S] : n \in lo..hi}

----------------------------------------------------------------------------
(* package jsondb: the store.  Every operator takes the cache c and yields *)
(* the value the method returns or the cache it leaves behind; none of the *)
(* methods of JSONDB ever returns a non-nil error.                         *)

\* memorystorage.New(): six empty maps.
NewCache ==
    [ShortToFull        |-> EmptyMap,
     FullToShort        |-> EmptyMap,
     Users              |-> EmptyMap,
     UsersIdsToUrlsMap  |-> EmptyMap,
     UrlsToUsersIdsMap  |-> EmptyMap,
     UrlsToIsDeletedMap |-> EmptyMap]

\* JSONDB.InsertURLMapping: two unconditional map writes, no uniqueness test.
InsertURLMapping(c, short, full) ==
    [c EXCEPT !.ShortToFull = Put(@, short, full),
              !.FullToShort = Put(@, full, short)]

\* JSONDB.SaveNewFullsAndShorts: InsertURLMapping for every entry of the map m,
\* in the order Go's map iteration happens to produce: that of the keys of m in
\* perm, a sequence that lists every possible key once.
RECURSIVE SaveNewFullsAndShorts(_, _, _)
SaveNewFullsAndShorts(c, m, perm) ==
    IF perm = <<>> THEN c
    ELSE IF Head(perm) \notin DOMAIN m THEN SaveNewFullsAndShorts(c, m, Tail(perm))
    ELSE SaveNewFullsAndShorts(InsertURLMapping(c, m[Head(perm)], Head(perm)),
                               m, Tail(perm))

\* A faulty variant of FindShortByFull that looks the full URL up among the short
\* keys; the properties of the service must tell it from the real one.
FindShortByFullAmongShorts(c, full) ==
    [short |-> Lookup(c.ShortToFull, full),
     found |-> full \in DOMAIN c.ShortToFull,
     err   |-> Nil]

\* A faulty variant of FindShortByFull that does not find a mapping marked
\* deleted.
FindShortByFullSkippingDeleted(c, full) ==
    LET live == full \in DOMAIN c.FullToShort /\ ~LookupBool(c.UrlsToIsDeletedMap, full)
    IN  [short |-> IF live THEN c.FullToShort[full] ELSE ZeroStr,
         found |-> live,
         err   |-> Nil]

\* JSONDB.FindShortByFull
FindShortByFull(c, full) ==
    [short |-> Lookup(c.FullToShort, full),
     found |-> full \in DOMAIN c.FullToShort,
     err   |-> Nil]

\* A faulty variant of FindShortsByFulls that looks up the first URL only.
FindShortsByFullsFirstOnly(c, originalUrls) ==
    [full \in {f \in (IF originalUrls = <<>> THEN {} ELSE {Head(originalUrls)}) :
                    FindShortByFull(c, f).found}
        |-> FindShortByFull(c, full).short]

\* JSONDB.FindShortsByFulls: the entries of FullToShort for the URLs that have one.
FindShortsByFulls(c, originalUrls) ==
    [full \in {f \in Range(originalUrls) : FindShortByFull(c, f).found}
        |-> FindShortByFull(c, full).short]

\* A faulty variant of FindFullByShort that reads the deleted flag under the
\* short key instead of the full URL.
FindFullByShortFlagByShort(c, short) ==
    [full  |-> Lookup(c.ShortToFull, short),
     found |-> short \in DOMAIN c.ShortToFull,
     err   |-> IF LookupBool(c.UrlsToIsDeletedMap, short)
               THEN ErrURLMarkedAsDeleted ELSE Nil]

\* JSONDB.FindFullByShort
FindFullByShort(c, short) ==
    LET full      == Lookup(c.ShortToFull, short)
        isDeleted == LookupBool(c.UrlsToIsDeletedMap, full)
    IN  [full  |-> full,
         found |-> short \in DOMAIN c.ShortToFull,
         err   |-> IF isDeleted THEN ErrURLMarkedAsDeleted ELSE Nil]

\* JSONDB.IsShortExists
IsShortExists(c, short) == short \in DOMAIN c.ShortToFull

\* A faulty variant of SaveUserUrls that clears the deleted flag of the URLs it
\* saves.
RECURSIVE SaveUserUrlsReviving(_, _, _)
SaveUserUrlsReviving(c, userID, urls) ==
    IF urls = <<>> THEN c
    ELSE LET url == Head(urls)
             c1  == [c EXCEPT
                        !.UsersIdsToUrlsMap =
                            Put(@, userID, Append(LookupSlice(@, userID), url)),
                        !.UrlsToUsersIdsMap =
                            Put(@, url, Append(LookupSlice(@, url), userID)),
                        !.UrlsToIsDeletedMap = Put(@, url, FALSE)]
         IN  SaveUserUrlsReviving(c1, userID, Tail(urls))

\* JSONDB.SaveUserUrls: for every url in turn, append url to the user's slice and
\* the user to the url's slice (no test for an entry already there).
RECURSIVE SaveUserUrls(_, _, _)
SaveUserUrls(c, userID, urls) ==
    IF urls = <<>> THEN c
    ELSE LET url == Head(urls)
             c1  == [c EXCEPT
                        !.UsersIdsToUrlsMap =
                            Put(@, userID, Append(LookupSlice(@, userID), url)),
                        !.UrlsToUsersIdsMap =
                            Put(@, url, Append(LookupSlice(@, url), userID))]
         IN  SaveUserUrls(c1, userID, Tail(urls))

\* JSONDB.CreateUser given a new user.User and the n-th UUID as uuid.New()'s
\* value: sets the user's ID and stores the user under it.
CreateUser(c, id) ==
    [cache |-> [c EXCEPT !.Users = Put(@, id, [ID |-> id])], userID |-> id, err |-> Nil]

\* A faulty variant of GetUserByID that reports an absent user as an error.
GetUserByIDFailingWhenAbsent(c, userID) ==
    IF userID \in DOMAIN c.Users THEN [user |-> c.Users[userID], err |-> Nil]
    ELSE [user |-> [ID |-> ZeroStr], err |-> ErrStore]

\* JSONDB.GetUserByID: the stored user, or a user with the empty ID.
GetUserByID(c, userID) ==
    IF userID \in DOMAIN c.Users THEN [user |-> c.Users[userID], err |-> Nil]
    ELSE [user |-> [ID |-> ZeroStr], err |-> Nil]

\* JSONDB.BeginTransaction: a stub; the handle is nil and the store is as it was.
BeginTransaction(c) == [cache |-> c, tx |-> Nil, err |-> Nil]

\* JSONDB.CommitTransaction: does nothing.
CommitTransaction(c) == [cache |-> c, err |-> Nil]

\* A faulty variant of the rollback that does undo: it empties the store.
RollbackTransactionUndoing(c) == [cache |-> NewCache, err |-> Nil]

\* JSONDB.RollbackTransaction: does nothing.
RollbackTransaction(c) == [cache |-> c, err |-> Nil]

\* The (userID, shortURL) pairs the two loops of RemoveUsersUrls visit.
RequestedPairs(usersURLs) ==
    UNION {{<<u, usersURLs[u][i]>> : i \in 1..Len(usersURLs[u])} : u \in DOMAIN usersURLs}

\* A faulty variant of the test that leaves out funk.Contains(usersIds, userID).
OwnsShortAnyUser(c, userID, shortURL) ==
    Lookup(c.ShortToFull, shortURL) \in DOMAIN c.UrlsToUsersIdsMap

\* The test of RemoveUsersUrls for one pair: the full URL the short key maps to
\* (the zero string when it maps to none) has an owner slice holding userID.
OwnsShort(c, userID, shortURL) ==
    LET fullURL == Lookup(c.ShortToFull, shortURL)
    IN  /\ fullURL \in DOMAIN c.UrlsToUsersIdsMap
        /\ Contains(c.UrlsToUsersIdsMap[fullURL], userID)

\* A faulty variant of RemoveUsersUrls that also takes the URLs it marks out of
\* the owners map.
RemoveUsersUrlsForgettingOwners(c, usersURLs) ==
    LET marked == {Lookup(c.ShortToFull, p[2]) :
                      p \in {q \in RequestedPairs(usersURLs) : OwnsShort(c, q[1], q[2])}}
    IN  [c EXCEPT !.UrlsToIsDeletedMap =
                      [x \in DOMAIN @ \cup marked |-> IF x \in marked THEN TRUE ELSE @[x]],
                  !.UrlsToUsersIdsMap = [x \in DOMAIN @ \ marked |-> @[x]]]

\* A faulty variant of RemoveUsersUrls that marks nothing.
RemoveUsersUrlsMarkingNothing(c, usersURLs) == c

\* JSONDB.RemoveUsersUrls: sets UrlsToIsDeletedMap[fullURL] = true for every pair
\* that passes the test.  The loops read only maps they do not write and only
\* ever write true, so the order of iteration does not show in the result.
RemoveUsersUrls(c, usersURLs) ==
    LET marked == {Lookup(c.ShortToFull, p[2]) :
                      p \in {q \in RequestedPairs(usersURLs) : OwnsShort(c, q[1], q[2])}}
    IN  [c EXCEPT !.UrlsToIsDeletedMap =
                      [x \in DOMAIN @ \cup marked |-> IF x \in marked THEN TRUE ELSE @[x]]]

----------------------------------------------------------------------------
(* package postgresdb: the relational backend.  A table is the set of its  *)
(* rows.  url_redirects has original_url as its primary key and a unique   *)
(* index on short; users_urls has (user_id, url) as its primary key and    *)
(* references users and url_redirects.                                     *)

\* What the driver reports when a statement breaks a primary key or a unique
\* index, and when it breaks a foreign key.
ErrUniqueViolation == "duplicate key value violates unique constraint"
ErrForeignKeyViolation == "violates foreign key constraint"

\* The tables after the migrations, with the users the requests come from
\* already created by the authentication layer.
NewTables == [url_redirects |-> {}, users_urls |-> {}, users |-> Users]

\* Whether a row (short, full) would break the primary key or the unique index.
PGConflicts(t, short, full) ==
    \E row \in t.url_redirects : row.original_url = full \/ row.short = short

\* PostgresDB.InsertURLMapping: a plain INSERT.
PGInsertURLMapping(t, short, full) ==
    IF PGConflicts(t, short, full) THEN [tables |-> t, err |-> ErrUniqueViolation]
    ELSE [tables |-> [t EXCEPT !.url_redirects =
                         @ \cup {[original_url |-> full, short |-> short,
                                  is_deleted |-> FALSE]}],
          err    |-> Nil]

\* The query SaveURLMapping: INSERT ... ON CONFLICT DO NOTHING.
PGSaveURLMapping(t, short, full) ==
    IF PGConflicts(t, short, full) THEN t ELSE PGInsertURLMapping(t, short, full).tables

\* PostgresDB.SaveNewFullsAndShorts: SaveURLMapping for every entry of the map,
\* in the order perm of Go's map iteration.
RECURSIVE PGSaveNewFullsAndShorts(_, _, _)
PGSaveNewFullsAndShorts(t, m, perm) ==
    IF perm = <<>> THEN t
    ELSE IF Head(perm) \notin DOMAIN m THEN PGSaveNewFullsAndShorts(t, m, Tail(perm))
    ELSE PGSaveNewFullsAndShorts(PGSaveURLMapping(t, m[Head(perm)], Head(perm)),
                                 m, Tail(perm))

\* PostgresDB.SaveUserUrls: the upsert SaveUserUrl for every url in turn; the
\* first statement that breaks a foreign key ends the call with its error.
RECURSIVE PGSaveUserUrls(_, _, _)
PGSaveUserUrls(t, userID, urls) ==
    IF urls = <<>> THEN [tables |-> t, err |-> Nil]
    ELSE IF \/ userID \notin t.users
            \/ \A row \in t.url_redirects : row.original_url # Head(urls)
         THEN [tables |-> t, err |-> ErrForeignKeyViolation]
    ELSE PGSaveUserUrls([t EXCEPT !.users_urls =
                            @ \cup {[user_id |-> userID, url |-> Head(urls)]}],
                        userID, Tail(urls))

\* PostgresDB.RemoveUsersUrls: for every (user, short) pair the UPDATE sets
\* is_deleted on the row with that short whose original_url the user owns.
PGRemoveUsersUrls(t, usersURLs) ==
    [t EXCEPT !.url_redirects =
        {[row EXCEPT !.is_deleted =
             \/ @
             \/ \E p \in RequestedPairs(usersURLs) :
                   /\ row.short = p[2]
                   /\ [user_id |-> p[1], url |-> row.original_url] \in t.users_urls]
           : row \in @}]

\* PostgresDB.GetUserUrls: one entry for every row of the join that is not
\* deleted, in no stated order.
PGGetUserUrls(t, userID) ==
    {[ShortURL |-> row.short, OriginalURL |-> row.original_url] :
        row \in {r \in t.url_redirects :
                    /\ [user_id |-> userID, url |-> r.original_url] \in t.users_urls
                    /\ ~r.is_deleted}}

\* PostgresDB.FindFullByShort
PGFindFullByShort(t, short) ==
    IF \A row \in t.url_redirects : row.short # short
    THEN [full |-> ZeroStr, found |-> FALSE, err |-> Nil]
    ELSE LET row == CHOOSE r \in t.url_redirects : r.short = short
         IN  [full  |-> row.original_url,
              found |-> TRUE,
              err   |-> IF row.is_deleted THEN ErrURLMarkedAsDeleted ELSE Nil]

\* PostgresDB.FindShortByFull
PGFindShortByFull(t, full) ==
    IF \A row \in t.url_redirects : row.original_url # full
    THEN [short |-> ZeroStr, found |-> FALSE, err |-> Nil]
    ELSE [short |-> (CHOOSE r \in t.url_redirects : r.original_url = full).short,
          found |-> TRUE,
          err   |-> Nil]

\* PostgresDB.FindShortsByFulls
PGFindShortsByFulls(t, urls) ==
    [full \in {f \in Range(urls) : PGFindShortByFull(t, f).found}
        |-> PGFindShortByFull(t, full).short]

----------------------------------------------------------------------------
(* package service: the shortening service over the store.                 *)

\* config ShortURLBase after clarifyShortURLBase: scheme, host and port, no
\* trailing slash.
shortURLBase == "http://localhost:8080"

\* A faulty UUID source that hands out the same value every time.
uuidNewRepeating(n) == UUIDs[1]

\* uuid.New().String(): the (n+1)-th value handed out.  Version-4 UUIDs carry 122
\* random bits; the model takes them never to repeat.
uuidNew(n) == UUIDs[n + 1]

\* Service.GetShortURL
GetShortURL(shortKey) == shortURLBase \o "/" \o shortKey

\* strings.TrimPrefix
TrimPrefix(str, prefix) ==
    IF Len(str) >= Len(prefix) /\ SubSeq(str, 1, Len(prefix)) = prefix
    THEN SubSeq(str, Len(prefix) + 1, Len(str))
    ELSE str

\* strings.TrimRight(str, "/")
RECURSIVE TrimRightSlash(_)
TrimRightSlash(str) ==
    IF Len(str) > 0 /\ SubSeq(str, Len(str), Len(str)) = "/"
    THEN TrimRightSlash(SubSeq(str, 1, Len(str) - 1))
    ELSE str

\* A faulty variant of GetShortURLKey that leaves the base on.
GetShortURLKeyUntrimmed(shortURL) == shortURL

\* Service.GetShortURLKey
GetShortURLKey(shortURL) ==
    IF shortURL = ZeroStr \/ shortURLBase = ZeroStr THEN ZeroStr
    ELSE TrimPrefix(TrimPrefix(shortURL, TrimRightSlash(shortURLBase)), "/")

\* JSONDB.GetUserUrls: one models.UserURL for every item of the user's slice, in
\* the slice's order, whether or not the URL is marked deleted; the short URL is
\* the formatter applied to FullToShort[url] (the zero value when there is none).
\* shortURLFormatter is Nil or "GetShortURL", the one formatter the service
\* passes; with Nil the short key is listed as it is.
GetUserUrls(c, userID, shortURLFormatter) ==
    LET urls == LookupSlice(c.UsersIdsToUrlsMap, userID)
        formatter(str) == IF shortURLFormatter = Nil THEN str ELSE GetShortURL(str)
    IN  [i \in 1..Len(urls) |->
            [ShortURL    |-> formatter(Lookup(c.FullToShort, urls[i])),
             OriginalURL |-> urls[i]]]

\* Service.GetUserURLs
GetUserURLs(c, userID) == GetUserUrls(c, userID, "GetShortURL")

\* Service.GetOriginalURL
GetOriginalURL(c, short) ==
    LET r == FindFullByShort(c, short)
    IN  IF r.err # Nil THEN [full |-> ZeroStr, err |-> r.err]
        ELSE IF ~r.found THEN [full |-> ZeroStr, err |-> Nil]
        ELSE [full |-> r.full, err |-> Nil]

\* A faulty variant of the redirect handler that takes no notice of the error.
GetRedirecttofullurlIgnoringDeleted(c, short) ==
    LET r == FindFullByShort(c, short)
    IN  IF ~r.found THEN [status |-> 404, Location |-> ZeroStr]
        ELSE [status |-> 307, Location |-> r.full]

\* router.GetRedirecttofullurl: the status it writes and the Location header.
GetRedirecttofullurl(c, short) ==
    LET r == FindFullByShort(c, short)
    IN  IF r.err = ErrURLMarkedAsDeleted THEN [status |-> 410, Location |-> ZeroStr]
        ELSE IF r.err # Nil THEN [status |-> 500, Location |-> ZeroStr]
        ELSE IF ~r.found THEN [status |-> 404, Location |-> ZeroStr]
        ELSE [status |-> 307, Location |-> r.full]

\* A faulty variant of ShortenURL that records the owner only when it has
\* inserted the mapping.
ShortenURLOwningOnInsert(c, n, urlToShort, userID) ==
    LET r     == FindShortByFull(c, urlToShort)
        short == IF r.found THEN r.short ELSE uuidNew(n)
        c1    == IF r.found THEN c ELSE InsertURLMapping(c, short, urlToShort)
        c2    == IF r.found THEN c1 ELSE SaveUserUrls(c1, userID, <<urlToShort>>)
    IN  [cache |-> c2,
         uuids |-> IF r.found THEN n ELSE n + 1,
         short |-> GetShortURL(short),
         err   |-> IF r.found THEN ErrConflict ELSE Nil]

\* Service.ShortenURL on cache c with n UUIDs handed out so far: the cache and the
\* UUID count it leaves, and the (short URL, error) pair it returns.  The
\* transaction calls are no-ops of JSONDB.
ShortenURL(c, n, urlToShort, userID) ==
    LET r     == FindShortByFull(c, urlToShort)
        short == IF r.found THEN r.short ELSE uuidNew(n)
        c1    == IF r.found THEN c ELSE InsertURLMapping(c, short, urlToShort)
        c2    == SaveUserUrls(c1, userID, <<urlToShort>>)
    IN  [cache |-> c2,
         uuids |-> IF r.found THEN n ELSE n + 1,
         short |-> GetShortURL(short),
         err   |-> IF r.found THEN ErrConflict ELSE Nil]

\* A faulty variant of differenceStringSlices that takes nothing away.
differenceStringSlicesKeepingAll(a, bSet) == a

\* differenceStringSlices(a, b): the items of a not in b, in a's order.
differenceStringSlices(a, bSet) == SelectSeq(a, LAMBDA item : item \notin bSet)

\* funk.Uniq(funk.Union(s, s)): the items of s, each once, in order of first
\* appearance.
RECURSIVE Uniq(_)
Uniq(s) ==
    IF s = <<>> THEN <<>>
    ELSE LET init == Uniq(SubSeq(s, 1, Len(s) - 1))
             last == s[Len(s)]
         IN  IF Contains(init, last) THEN init ELSE Append(init, last)

\* The last index of x in s.
LastIndex(s, x) == CHOOSE i \in 1..Len(s) : s[i] = x /\ \A j \in (i + 1)..Len(s) : s[j] # x

\* Service.BatchShortenURLs.  batch is a sequence of [CorrelationID, OriginalURL];
\* perm is the order in which Go happens to range over the keys of a map.
\* Writing an entry of corrMap or newMap twice keeps the last value written; a
\* UUID is drawn for every item of unseen, repeated or not.
BatchShortenURLs(c, n, batch, userID, perm) ==
    LET originals   == [i \in 1..Len(batch) |-> batch[i].OriginalURL]
        corrMap     == [full \in Range(originals)
                           |-> batch[LastIndex(originals, full)].CorrelationID]
        existingMap == FindShortsByFulls(c, originals)
        unseen      == differenceStringSlices(originals, DOMAIN existingMap)
        newMap      == [url \in Range(unseen) |-> uuidNew(n + LastIndex(unseen, url) - 1)]
        c1          == SaveNewFullsAndShorts(c, newMap, perm)
        c2          == SaveUserUrls(c1, userID, Uniq(originals \o originals))
    IN  [cache  |-> c2,
         uuids  |-> n + Len(unseen),
         newMap |-> newMap,
         items  |-> {[CorrelationID |-> corrMap[full],
                      ShortURL      |-> GetShortURL(existingMap[full])] :
                         full \in DOMAIN existingMap}
                    \cup
                    {[CorrelationID |-> corrMap[full],
                      ShortURL      |-> GetShortURL(newMap[full])] :
                         full \in DOMAIN newMap}]

----------------------------------------------------------------------------
(* The service's write path over the relational backend.  A call works on  *)
(* the rows its transaction sees, w; the tables everybody else sees, t,    *)
(* change only when it commits.  failAt names the store call that the      *)
(* backend fails (a lost connection, say), or is "none".                   *)

\* Where a store call of the write path can fail.
FailPoints == {"none", "find", "insert", "save", "commit"}

\* A faulty rollback that leaves the transaction's changes in the tables.
PGRollbackKeepingChanges(t, w) == w

\* PostgresDB.RollbackTransaction, deferred by both service methods: the tables
\* stay as they were before the transaction.
PGRollbackTransaction(t, w) == t

\* PostgresDB.CommitTransaction: the transaction's rows become the tables.
PGCommitTransaction(t, w) == w

\* Service.ShortenURL over the relational backend.
PGShortenURL(t, n, urlToShort, userID, failAt) ==
    LET r     == PGFindShortByFull(t, urlToShort)
        drawn == failAt # "find" /\ ~r.found
        short == IF r.found THEN r.short ELSE uuidNew(n)
        ins   == IF r.found THEN [tables |-> t, err |-> Nil]
                 ELSE IF failAt = "insert" THEN [tables |-> t, err |-> ErrStore]
                 ELSE PGInsertURLMapping(t, short, urlToShort)
        sav   == IF failAt = "save" THEN [tables |-> ins.tables, err |-> ErrStore]
                 ELSE PGSaveUserUrls(ins.tables, userID, <<urlToShort>>)
        err   == IF failAt = "find" THEN ErrStore
                 ELSE IF ins.err # Nil THEN ins.err
                 ELSE IF sav.err # Nil THEN sav.err
                 ELSE IF failAt = "commit" THEN ErrStore
                 ELSE Nil
        w     == IF failAt = "find" \/ ins.err # Nil THEN ins.tables ELSE sav.tables
    IN  [tables |-> IF err = Nil THEN PGCommitTransaction(t, w)
                    ELSE PGRollbackTransaction(t, w),
         uuids  |-> IF drawn THEN n + 1 ELSE n,
         short  |-> IF err = Nil THEN GetShortURL(short) ELSE ZeroStr,
         err    |-> IF err # Nil THEN err ELSE IF r.found THEN ErrConflict ELSE Nil]

\* Service.BatchShortenURLs over the relational backend.
PGBatchShortenURLs(t, n, batch, userID, perm, failAt) ==
    LET originals   == [i \in 1..Len(batch) |-> batch[i].OriginalURL]
        corrMap     == [full \in Range(originals)
                           |-> batch[LastIndex(originals, full)].CorrelationID]
        existingMap == PGFindShortsByFulls(t, originals)
        unseen      == differenceStringSlices(originals, DOMAIN existingMap)
        newMap      == [url \in Range(unseen) |-> uuidNew(n + LastIndex(unseen, url) - 1)]
        ins         == IF failAt = "insert" THEN [tables |-> t, err |-> ErrStore]
                       ELSE [tables |-> PGSaveNewFullsAndShorts(t, newMap, perm),
                             err    |-> Nil]
        sav         == IF failAt = "save" THEN [tables |-> ins.tables, err |-> ErrStore]
                       ELSE PGSaveUserUrls(ins.tables, userID, Uniq(originals \o originals))
        err         == IF failAt = "find" THEN ErrStore
                       ELSE IF ins.err # Nil THEN ins.err
                       ELSE IF sav.err # Nil THEN sav.err
                       ELSE IF failAt = "commit" THEN ErrStore
                       ELSE Nil
        w           == IF failAt = "find" \/ ins.err # Nil THEN ins.tables ELSE sav.tables
    IN  [tables |-> IF err = Nil THEN PGCommitTransaction(t, w)
                    ELSE PGRollbackTransaction(t, w),
         uuids  |-> IF failAt = "find" THEN n ELSE n + Len(unseen),
         err    |-> err,
         items  |-> IF err # Nil THEN {}
                    ELSE {[CorrelationID |-> corrMap[full],
                           ShortURL      |-> GetShortURL(existingMap[full])] :
                              full \in DOMAIN existingMap}
                         \cup
                         {[CorrelationID |-> corrMap[full],
                           ShortURL      |-> GetShortURL(newMap[full])] :
                              full \in DOMAIN newMap}]

----------------------------------------------------------------------------
(* package urlsremover: the deletion queue.                                *)

\* A faulty variant of collectUrlsByUser that overwrites a user's slice instead
\* of appending to it.
RECURSIVE collectUrlsByUserOverwriting(_)
collectUrlsByUserOverwriting(ts) ==
    IF ts = <<>> THEN EmptyMap
    ELSE LET result == collectUrlsByUserOverwriting(SubSeq(ts, 1, Len(ts) - 1))
             t      == ts[Len(ts)]
         IN  Put(result, t.userID, <<t.urlToDelete>>)

\* A faulty variant of collectUrlsByUser that leaves out a short key the user's
\* slice already holds.
RECURSIVE collectUrlsByUserDeduplicating(_)
collectUrlsByUserDeduplicating(ts) ==
    IF ts = <<>> THEN EmptyMap
    ELSE LET result == collectUrlsByUserDeduplicating(SubSeq(ts, 1, Len(ts) - 1))
             t      == ts[Len(ts)]
             held   == LookupSlice(result, t.userID)
         IN  Put(result, t.userID,
                 IF \E i \in 1..Len(held) : held[i] = t.urlToDelete
                 THEN held ELSE Append(held, t.urlToDelete))

\* URLsRemover.collectUrlsByUser: the short keys of the tasks, per user, in the
\* order of the tasks.
RECURSIVE collectUrlsByUser(_)
collectUrlsByUser(ts) ==
    IF ts = <<>> THEN EmptyMap
    ELSE LET result == collectUrlsByUser(SubSeq(ts, 1, Len(ts) - 1))
             t      == ts[Len(ts)]
         IN  Put(result, t.userID, Append(LookupSlice(result, t.userID), t.urlToDelete))

----------------------------------------------------------------------------
(* The state after construction (app.New): an empty store, the consumer    *)
(* goroutine of Run waiting in its select, the reader of ListenErrors      *)
(* waiting on the error channel.                                           *)

NoResp == [op |-> "none", url |-> ZeroStr, short |-> ZeroStr, err |-> Nil, items |-> {},
           arg |-> EmptyMap]

\* The goroutines that calls of URLsRemover.Run may start, in the order in which
\* they are started.
Consumers == <<"g1", "g2">>

\* The state after urlsremover.New: both channels empty, no goroutine started.
QueueCreated ==
    /\ pendingJob = [u \in Users |-> <<>>]
    /\ queue = <<>>
    /\ tasks = [g \in Range(Consumers) |-> <<>>]
    /\ errorChannel = <<>>
    /\ pc = [g \in Range(Consumers) |-> "unstarted"]
    /\ ctxDone = FALSE
    /\ flushArg = [g \in Range(Consumers) |-> EmptyMap]

\* A faulty variant of the state after app.New in which Run has been called
\* twice.
QueueInitRunTwice ==
    /\ pendingJob = [u \in Users |-> <<>>]
    /\ queue = <<>>
    /\ tasks = [g \in Range(Consumers) |-> <<>>]
    /\ errorChannel = <<>>
    /\ pc = [g \in Range(Consumers) |-> "select"]
    /\ ctxDone = FALSE
    /\ flushArg = [g \in Range(Consumers) |-> EmptyMap]

\* The state after app.New, which calls Run once: the first goroutine waits in
\* its select.
QueueInit ==
    /\ pendingJob = [u \in Users |-> <<>>]
    /\ queue = <<>>
    /\ tasks = [g \in Range(Consumers) |-> <<>>]
    /\ errorChannel = <<>>
    /\ pc = [g \in Range(Consumers) |-> IF g = Consumers[1] THEN "select" ELSE "unstarted"]
    /\ ctxDone = FALSE
    /\ flushArg = [g \in Range(Consumers) |-> EmptyMap]

\* The goroutines that serve requests at the same time.
Requests == {"r1", "r2"}

\* A request goroutine with no ShortenURL call in progress, and all of them so.
NoCall == [pc |-> "idle", urlToShort |-> ZeroStr, userID |-> ZeroStr,
           short |-> ZeroStr, found |-> FALSE, resultErr |-> Nil]
NoCalls == [r \in Requests |-> NoCall]

Init ==
    /\ Cache = NewCache
    /\ Tables = NewTables
    /\ inflight = NoCalls
    /\ nextUUID = 0
    /\ resp = NoResp
    /\ issued = EmptyMap
    /\ QueueInit

\* The number of items in the slices of the map m, over the keys in S.
RECURSIVE TotalLen(_, _)
TotalLen(m, S) ==
    IF S = {} THEN 0
    ELSE LET k == CHOOSE x \in S : TRUE
         IN  Len(m[k]) + TotalLen(m, S \ {k})

\* The model explores a cache only while it holds few ownership entries.
WithinBounds(c) == TotalLen(c.UsersIdsToUrlsMap, DOMAIN c.UsersIdsToUrlsMap) <= MaxOwned

\* The orders in which Go may range over a map keyed by full URLs.
Perms == {o \in [1..Cardinality(URLs) -> URLs] : Range(o) = URLs}

CorrIDs == <<"c1", "c2", "c3", "c4">>

\* The batch whose i-th item asks for urls[i] under the i-th correlation ID.
BatchOf(urls) ==
    [i \in 1..Len(urls) |-> [CorrelationID |-> CorrIDs[i], OriginalURL |-> urls[i]]]

\* The maps a caller may hand to RemoveUsersUrls: some users, one key each.
RemovalMaps == UNION {[D -> SeqsOf(Keys, 1, 1)] : D \in SUBSET Users \ {{}}}

\* The maps a caller may hand to SaveNewFullsAndShorts: full URL -> short key.
NewMaps == UNION {[D -> Keys] : D \in SUBSET URLs}

----------------------------------------------------------------------------
(* The requests served by the shortening service.                          *)

\* A handler calls Service.ShortenURL(urlToShort, userID).
CallShortenURL(urlToShort, userID) ==
    \E r \in {ShortenURL(Cache, nextUUID, urlToShort, userID)} :
        /\ WithinBounds(r.cache)
        /\ Cache' = r.cache
        /\ nextUUID' = r.uuids
        /\ resp' = [op |-> "ShortenURL", url |-> urlToShort, short |-> r.short,
                    err |-> r.err, items |-> {}, arg |-> EmptyMap]
        /\ issued' = IF urlToShort \in DOMAIN issued THEN issued
                     ELSE Put(issued, urlToShort, r.short)
        /\ UNCHANGED <<queueVars, otherVars>>

\* A handler calls Service.BatchShortenURLs(batch, userID).
CallBatchShortenURLs(urls, userID, perm) ==
    \E r \in {BatchShortenURLs(Cache, nextUUID, BatchOf(urls), userID, perm)} :
        /\ WithinBounds(r.cache)
        /\ Cache' = r.cache
        /\ nextUUID' = r.uuids
        /\ resp' = [op |-> "BatchShortenURLs", url |-> ZeroStr, short |-> ZeroStr,
                    err |-> Nil, items |-> r.items,
                    arg |-> [urls |-> urls, userID |-> userID]]
        /\ issued' = [full \in DOMAIN issued \cup Range(urls) |->
                        IF full \in DOMAIN issued THEN issued[full]
                        ELSE GetShortURL(r.newMap[full])]
        /\ UNCHANGED <<queueVars, otherVars>>

\* A handler calls Service.ShortenURL on a service whose store is the
\* relational backend, and the backend fails the call at failAt.
PGCallShortenURL(urlToShort, userID, failAt) ==
    /\ nextUUID + 1 <= Len(UUIDs)
    /\ \E r \in {PGShortenURL(Tables, nextUUID, urlToShort, userID, failAt)} :
        /\ Tables' = r.tables
        /\ nextUUID' = r.uuids
        /\ resp' = [op |-> "ShortenURL", url |-> urlToShort, short |-> r.short,
                    err |-> r.err, items |-> {}, arg |-> [failAt |-> failAt]]
        /\ UNCHANGED <<Cache, issued, queueVars, inflight>>

\* The same for Service.BatchShortenURLs.
PGCallBatchShortenURLs(urls, userID, perm, failAt) ==
    /\ nextUUID + Len(urls) <= Len(UUIDs)
    /\ \E r \in {PGBatchShortenURLs(Tables, nextUUID, BatchOf(urls), userID, perm, failAt)} :
        /\ Tables' = r.tables
        /\ nextUUID' = r.uuids
        /\ resp' = [op |-> "BatchShortenURLs", url |-> ZeroStr, short |-> ZeroStr,
                    err |-> r.err, items |-> r.items, arg |-> [failAt |-> failAt]]
        /\ UNCHANGED <<Cache, issued, queueVars, inflight>>

\* uuid.Parse as PostgresDB.RemoveUsersUrls uses it: the IDs of the users table
\* are UUIDs and parse, another string does not.
ErrInvalidUUID == "invalid UUID length"
NotAUUID == "guest"
uuidParse(userID) == IF userID \in Users THEN Nil ELSE ErrInvalidUUID

\* The (user, short key) pairs of the map in the order in which the two loops of
\* PostgresDB.RemoveUsersUrls visit them, order being the order in which the
\* range over the map yields the users.
RECURSIVE PairsInOrder(_, _)
PairsInOrder(usersURLs, order) ==
    IF order = <<>> THEN <<>>
    ELSE [i \in 1..Len(usersURLs[Head(order)]) |->
             [userID |-> Head(order), url |-> usersURLs[Head(order)][i]]]
         \o PairsInOrder(usersURLs, Tail(order))

\* Where PostgresDB.RemoveUsersUrls may meet an error of the database: at Begin,
\* at Commit, or (failUpdate) at the n-th UPDATE.
RemovalFailPoints == {"none", "begin", "commit"}

\* PostgresDB.RemoveUsersUrls from the pair at position i on, w being the rows as
\* the transaction sees them and t the committed rows.  tx tells what has become
\* of the transaction by the return: "none" (Begin failed), "committed",
\* "rolledBack" (a failed Commit ends the transaction too) or "open".
RECURSIVE PGRemoveUsersUrlsFrom(_, _, _, _, _, _)
PGRemoveUsersUrlsFrom(t, w, pairs, i, failAt, failUpdate) ==
    IF i > Len(pairs)
    THEN IF failAt = "commit"
         THEN [tables |-> t, err |-> ErrStore, tx |-> "rolledBack"]
         ELSE [tables |-> PGCommitTransaction(t, w), err |-> Nil, tx |-> "committed"]
    ELSE IF uuidParse(pairs[i].userID) # Nil
    THEN [tables |-> t, err |-> uuidParse(pairs[i].userID), tx |-> "open"]
    ELSE IF failUpdate = i
    THEN [tables |-> PGRollbackTransaction(t, w), err |-> ErrStore, tx |-> "rolledBack"]
    ELSE PGRemoveUsersUrlsFrom(
             t, PGRemoveUsersUrls(w, Put(EmptyMap, pairs[i].userID, <<pairs[i].url>>)),
             pairs, i + 1, failAt, failUpdate)

\* PostgresDB.RemoveUsersUrls as a whole: Begin, the updates, Commit.
PGRemoveUsersUrlsTx(t, usersURLs, order, failAt, failUpdate) ==
    IF failAt = "begin"
    THEN [tables |-> t, err |-> ErrStore, tx |-> "none"]
    ELSE PGRemoveUsersUrlsFrom(t, t, PairsInOrder(usersURLs, order), 1, failAt, failUpdate)

\* A call of PostgresDB.RemoveUsersUrls, as the deletion queue makes it.
PGCallRemoveUsersUrls(usersURLs, order, failAt, failUpdate) ==
    /\ Range(order) = DOMAIN usersURLs
    /\ Len(order) = Cardinality(DOMAIN usersURLs)
    /\ \E r \in {PGRemoveUsersUrlsTx(Tables, usersURLs, order, failAt, failUpdate)} :
        /\ Tables' = r.tables
        /\ resp' = [op |-> "RemoveUsersUrls", url |-> ZeroStr, short |-> ZeroStr,
                    err |-> r.err, items |-> {},
                    arg |-> [tx |-> r.tx]]
        /\ UNCHANGED <<Cache, nextUUID, issued, queueVars, inflight>>

\* A short key that uuid.New() never hands out.
NoSuchKey == "nokey"

\* A client follows the short URL of the key short.
CallGetRedirecttofullurl(short) ==
    /\ resp' = [op |-> "GetRedirecttofullurl", url |-> ZeroStr, short |-> short,
                err |-> Nil, items |-> {}, arg |-> GetRedirecttofullurl(Cache, short)]
    /\ UNCHANGED <<Cache, nextUUID, issued, queueVars, otherVars>>

----------------------------------------------------------------------------
(* Service.ShortenURL step by step, as two request goroutines run it at    *)
(* the same time on the in-memory / JSON-file store, which has no lock.    *)
(* A step is one read or one write of a map of the store.  The steps here  *)
(* are the runs in which the accesses of the two goroutines do not overlap *)
(* in time; when they do, the Go runtime may also end the process with     *)
(* "fatal error: concurrent map writes".                                   *)

\* The handler of goroutine r calls ShortenURL(urlToShort, userID);
\* BeginTransaction does nothing.
ShortenBegin(r, urlToShort, userID) ==
    /\ inflight[r].pc = "idle"
    /\ inflight' = [inflight EXCEPT ![r] =
                       [NoCall EXCEPT !.pc = "find", !.urlToShort = urlToShort,
                                      !.userID = userID]]
    /\ UNCHANGED <<storeVars, queueVars, Tables>>

\* short, found, err := s.db.FindShortByFull(...); then resultErr = ErrConflict,
\* or short = uuid.New().String().
ShortenFind(r) ==
    /\ inflight[r].pc = "find"
    /\ \E f \in {FindShortByFull(Cache, inflight[r].urlToShort)} :
          /\ inflight' = [inflight EXCEPT ![r] =
                [@ EXCEPT !.found = f.found,
                          !.short = IF f.found THEN f.short ELSE uuidNew(nextUUID),
                          !.resultErr = IF f.found THEN ErrConflict ELSE Nil,
                          !.pc = IF f.found THEN "save" ELSE "insertShortToFull"]]
          /\ nextUUID' = IF f.found THEN nextUUID ELSE nextUUID + 1
    /\ UNCHANGED <<Cache, resp, issued, queueVars, Tables>>

\* InsertURLMapping's first write: db.Cache.ShortToFull[short] = full.
ShortenInsertShortToFull(r) ==
    /\ inflight[r].pc = "insertShortToFull"
    /\ Cache' = [Cache EXCEPT !.ShortToFull =
                     Put(@, inflight[r].short, inflight[r].urlToShort)]
    /\ inflight' = [inflight EXCEPT ![r].pc = "insertFullToShort"]
    /\ UNCHANGED <<nextUUID, resp, issued, queueVars, Tables>>

\* InsertURLMapping's second write: db.Cache.FullToShort[full] = short.
ShortenInsertFullToShort(r) ==
    /\ inflight[r].pc = "insertFullToShort"
    /\ Cache' = [Cache EXCEPT !.FullToShort =
                     Put(@, inflight[r].urlToShort, inflight[r].short)]
    /\ inflight' = [inflight EXCEPT ![r].pc = "save"]
    /\ UNCHANGED <<nextUUID, resp, issued, queueVars, Tables>>

\* s.db.SaveUserUrls(ctx, userID, []string{urlToShort}, tx), the commit that
\* does nothing, and the return of (GetShortURL(short), resultErr).
ShortenSaveAndReturn(r) ==
    /\ inflight[r].pc = "save"
    /\ Cache' = SaveUserUrls(Cache, inflight[r].userID, <<inflight[r].urlToShort>>)
    /\ inflight' = [inflight EXCEPT ![r].pc = "returned"]
    /\ resp' = [op |-> "ShortenURL", url |-> inflight[r].urlToShort,
                short |-> GetShortURL(inflight[r].short),
                err |-> inflight[r].resultErr, items |-> {}, arg |-> EmptyMap]
    /\ UNCHANGED <<nextUUID, issued, queueVars, Tables>>

----------------------------------------------------------------------------
(* Direct calls of the store's methods.                                    *)

StoreResp(op) == [NoResp EXCEPT !.op = op]

\* db.InsertURLMapping(short, full)
StoreInsertURLMapping(short, full) ==
    /\ Cache' = InsertURLMapping(Cache, short, full)
    /\ resp' = StoreResp("InsertURLMapping")
    /\ UNCHANGED <<nextUUID, issued, queueVars, otherVars>>

\* db.SaveNewFullsAndShorts(m), the map ranged over in the order perm.
StoreSaveNewFullsAndShorts(m, perm) ==
    /\ Cache' = SaveNewFullsAndShorts(Cache, m, perm)
    /\ resp' = StoreResp("SaveNewFullsAndShorts")
    /\ UNCHANGED <<nextUUID, issued, queueVars, otherVars>>

\* db.SaveUserUrls(userID, urls)
StoreSaveUserUrls(userID, urls) ==
    /\ WithinBounds(SaveUserUrls(Cache, userID, urls))
    /\ Cache' = SaveUserUrls(Cache, userID, urls)
    /\ resp' = StoreResp("SaveUserUrls")
    /\ UNCHANGED <<nextUUID, issued, queueVars, otherVars>>

\* db.CreateUser(&user.User{}), as the authentication layer calls it for a
\* request that carries no valid user ID.
StoreCreateUser ==
    /\ Cardinality(DOMAIN Cache.Users) < MaxUsers
    /\ \E r \in {CreateUser(Cache, uuidNew(nextUUID))} :
          /\ Cache' = r.cache
          /\ resp' = [StoreResp("CreateUser") EXCEPT !.short = r.userID, !.err = r.err]
    /\ nextUUID' = nextUUID + 1
    /\ UNCHANGED <<issued, queueVars, otherVars>>

\* db.GetUserByID(userID)
StoreGetUserByID(userID) ==
    /\ resp' = [StoreResp("GetUserByID") EXCEPT
                   !.short = userID,
                   !.err = GetUserByID(Cache, userID).err,
                   !.arg = GetUserByID(Cache, userID).user]
    /\ UNCHANGED <<Cache, nextUUID, issued, queueVars, otherVars>>

\* db.BeginTransaction()
StoreBeginTransaction ==
    /\ Cache' = BeginTransaction(Cache).cache
    /\ resp' = [StoreResp("BeginTransaction") EXCEPT !.err = BeginTransaction(Cache).err]
    /\ UNCHANGED <<nextUUID, issued, queueVars, otherVars>>

\* db.CommitTransaction(tx)
StoreCommitTransaction ==
    /\ Cache' = CommitTransaction(Cache).cache
    /\ resp' = [StoreResp("CommitTransaction") EXCEPT !.err = CommitTransaction(Cache).err]
    /\ UNCHANGED <<nextUUID, issued, queueVars, otherVars>>

\* db.RollbackTransaction(tx)
StoreRollbackTransaction ==
    /\ Cache' = RollbackTransaction(Cache).cache
    /\ resp' = [StoreResp("RollbackTransaction") EXCEPT
                   !.err = RollbackTransaction(Cache).err]
    /\ UNCHANGED <<nextUUID, issued, queueVars, otherVars>>

\* db.FindShortsByFulls(originalUrls)
StoreFindShortsByFulls(originalUrls) ==
    /\ resp' = [StoreResp("FindShortsByFulls") EXCEPT
                   !.arg = [urls   |-> originalUrls,
                            result |-> FindShortsByFulls(Cache, originalUrls)]]
    /\ UNCHANGED <<Cache, nextUUID, issued, queueVars, otherVars>>

\* db.RemoveUsersUrls(usersURLs), as the deletion queue's consumer or a test
\* calls it.
StoreRemoveUsersUrls(usersURLs) ==
    /\ Cache' = RemoveUsersUrls(Cache, usersURLs)
    /\ resp' = [StoreResp("RemoveUsersUrls") EXCEPT !.arg = usersURLs]
    /\ UNCHANGED <<nextUUID, issued, queueVars, otherVars>>

----------------------------------------------------------------------------
(* The same call made on both backends: the in-memory / JSON-file store    *)
(* and the relational one.  resp holds what the former returned.  A caller *)
(* of the relational backend rolls its transaction back on an error, as    *)
(* the service does.                                                       *)

BothInsertURLMapping(short, full) ==
    /\ Cache' = InsertURLMapping(Cache, short, full)
    /\ Tables' = PGInsertURLMapping(Tables, short, full).tables
    /\ resp' = StoreResp("InsertURLMapping")
    /\ UNCHANGED <<nextUUID, issued, queueVars, inflight>>

BothSaveNewFullsAndShorts(m, perm) ==
    /\ Cache' = SaveNewFullsAndShorts(Cache, m, perm)
    /\ Tables' = PGSaveNewFullsAndShorts(Tables, m, perm)
    /\ resp' = StoreResp("SaveNewFullsAndShorts")
    /\ UNCHANGED <<nextUUID, issued, queueVars, inflight>>

BothSaveUserUrls(userID, urls) ==
    /\ WithinBounds(SaveUserUrls(Cache, userID, urls))
    /\ Cache' = SaveUserUrls(Cache, userID, urls)
    /\ Tables' = IF PGSaveUserUrls(Tables, userID, urls).err = Nil
                 THEN PGSaveUserUrls(Tables, userID, urls).tables
                 ELSE Tables
    /\ resp' = StoreResp("SaveUserUrls")
    /\ UNCHANGED <<nextUUID, issued, queueVars, inflight>>

BothRemoveUsersUrls(usersURLs) ==
    /\ Cache' = RemoveUsersUrls(Cache, usersURLs)
    /\ Tables' = PGRemoveUsersUrls(Tables, usersURLs)
    /\ resp' = StoreResp("RemoveUsersUrls")
    /\ UNCHANGED <<nextUUID, issued, queueVars, inflight>>

----------------------------------------------------------------------------
(* The deletion queue: callers of EnqueueJob.                              *)

\* Service.DeleteURLsAsync -> URLsRemover.EnqueueJob: the caller enters the loop
\* that sends one task per short key of the job.
CallEnqueueJob(userID, urlsToDelete) ==
    /\ pendingJob[userID] = <<>>
    /\ pendingJob' = [pendingJob EXCEPT ![userID] = urlsToDelete]
    /\ UNCHANGED <<storeVars, queue, tasks, errorChannel, pc, ctxDone, flushArg, otherVars>>

\* What the delete handler answers once EnqueueJob has returned: accepted, with
\* no error, whatever the job.
Accepted == [NoResp EXCEPT !.op = "DeleteURLsAsync"]

\* A faulty variant of the send that never blocks.
EnqueueSendNeverBlocking(userID) ==
    /\ pendingJob[userID] # <<>>
    /\ queue' = Append(queue, [userID |-> userID, urlToDelete |-> Head(pendingJob[userID])])
    /\ pendingJob' = [pendingJob EXCEPT ![userID] = Tail(@)]
    /\ resp' = IF Tail(pendingJob[userID]) = <<>> THEN Accepted ELSE resp
    /\ UNCHANGED <<Cache, nextUUID, issued, tasks, errorChannel, pc, ctxDone, flushArg, otherVars>>

\* One iteration of EnqueueJob's loop: r.queue <- &task{...}, which blocks while
\* the channel's buffer is full.  After the last one EnqueueJob returns and the
\* handler answers.
EnqueueSend(userID) ==
    /\ pendingJob[userID] # <<>>
    /\ Len(queue) < channelCapacity
    /\ queue' = Append(queue, [userID |-> userID, urlToDelete |-> Head(pendingJob[userID])])
    /\ pendingJob' = [pendingJob EXCEPT ![userID] = Tail(@)]
    /\ resp' = IF Tail(pendingJob[userID]) = <<>> THEN Accepted ELSE resp
    /\ UNCHANGED <<Cache, nextUUID, issued, tasks, errorChannel, pc, ctxDone, flushArg, otherVars>>

----------------------------------------------------------------------------
(* The consumer goroutines of URLsRemover.Run.  Every call of Run starts   *)
(* one.  pc[g] is "unstarted" before goroutine g exists, "select" while it *)
(* waits in the select, "flushing" while its RemoveUsersUrls call is in    *)
(* progress, "sendErr" while it sends the call's error to the error        *)
(* channel, "stopped" once it has returned.                                *)

\* URLsRemover.Run(ctx): go func() {...}(), with no test for a goroutine started
\* before.
CallRun ==
    /\ \E i \in 1..Len(Consumers) :
          /\ pc[Consumers[i]] = "unstarted"
          /\ \A j \in 1..(i - 1) : pc[Consumers[j]] # "unstarted"
          /\ pc' = [pc EXCEPT ![Consumers[i]] = "select"]
    /\ UNCHANGED <<storeVars, pendingJob, queue, tasks, errorChannel, ctxDone, flushArg, otherVars>>

\* case t := <-r.queue: tasks = append(tasks, *t)
RunReceive(g) ==
    /\ pc[g] = "select"
    /\ queue # <<>>
    /\ Len(tasks[g]) < MaxTasks
    /\ tasks' = [tasks EXCEPT ![g] = Append(@, Head(queue))]
    /\ queue' = Tail(queue)
    /\ UNCHANGED <<storeVars, pendingJob, errorChannel, pc, ctxDone, flushArg, otherVars>>

\* case <-ticker.C with an empty batch: continue.
RunTickIdle(g) ==
    /\ pc[g] = "select"
    /\ tasks[g] = <<>>
    /\ UNCHANGED vars

\* A faulty variant of the tick that also flushes after the goroutine has
\* returned.
RunTickFlushAfterReturn(g) ==
    /\ pc[g] \in {"select", "stopped"}
    /\ tasks[g] # <<>>
    /\ flushArg' = [flushArg EXCEPT ![g] = collectUrlsByUser(tasks[g])]
    /\ pc' = [pc EXCEPT ![g] = "flushing"]
    /\ UNCHANGED <<storeVars, pendingJob, queue, tasks, errorChannel, ctxDone, otherVars>>

\* case <-ticker.C with a batch: r.db.RemoveUsersUrls(r.collectUrlsByUser(tasks))
\* is called.
RunTickFlush(g) ==
    /\ pc[g] = "select"
    /\ tasks[g] # <<>>
    /\ flushArg' = [flushArg EXCEPT ![g] = collectUrlsByUser(tasks[g])]
    /\ pc' = [pc EXCEPT ![g] = "flushing"]
    /\ UNCHANGED <<storeVars, pendingJob, queue, tasks, errorChannel, ctxDone, otherVars>>

\* A faulty variant in which the request waits for the flush and answers with its
\* outcome.
RunFlushReturnAnswering(g, dbErr) ==
    /\ pc[g] = "flushing"
    /\ Cache' = IF dbErr = Nil THEN RemoveUsersUrls(Cache, flushArg[g]) ELSE Cache
    /\ tasks' = IF dbErr = Nil THEN [tasks EXCEPT ![g] = <<>>] ELSE tasks
    /\ pc' = [pc EXCEPT ![g] = IF dbErr = Nil THEN "select" ELSE "sendErr"]
    /\ flushArg' = [flushArg EXCEPT ![g] = EmptyMap]
    /\ resp' = [Accepted EXCEPT !.err = dbErr]
    /\ UNCHANGED <<nextUUID, issued, pendingJob, queue, errorChannel, ctxDone, otherVars>>

\* The call returns dbErr: nil, and then it has taken effect, or an error of the
\* backend, and then it has changed nothing.  On an error the goroutine goes on
\* to `r.errorChannel <- err; continue` and tasks stays as it is; on success it
\* sets tasks to nil.  The call was given context.TODO(), not ctx.
RunFlushReturn(g, dbErr) ==
    /\ pc[g] = "flushing"
    /\ Cache' = IF dbErr = Nil THEN RemoveUsersUrls(Cache, flushArg[g]) ELSE Cache
    /\ tasks' = IF dbErr = Nil THEN [tasks EXCEPT ![g] = <<>>] ELSE tasks
    /\ pc' = [pc EXCEPT ![g] = IF dbErr = Nil THEN "select" ELSE "sendErr"]
    /\ flushArg' = [flushArg EXCEPT ![g] = EmptyMap]
    /\ UNCHANGED <<nextUUID, resp, issued, pendingJob, queue, errorChannel, ctxDone, otherVars>>

\* r.errorChannel <- err, which blocks while the channel's buffer is full; then
\* continue.
RunSendErr(g) ==
    /\ pc[g] = "sendErr"
    /\ Len(errorChannel) < channelCapacity
    /\ errorChannel' = Append(errorChannel, ErrStore)
    /\ pc' = [pc EXCEPT ![g] = "select"]
    /\ UNCHANGED <<storeVars, pendingJob, queue, tasks, ctxDone, flushArg, otherVars>>

\* case <-ctx.Done(): return.
RunStop(g) ==
    /\ pc[g] = "select"
    /\ ctxDone
    /\ pc' = [pc EXCEPT ![g] = "stopped"]
    /\ UNCHANGED <<storeVars, pendingJob, queue, tasks, errorChannel, ctxDone, flushArg, otherVars>>

\* App.Run calls stopUrlsRemover on the shutdown signal.
Cancel ==
    /\ ~ctxDone
    /\ ctxDone' = TRUE
    /\ UNCHANGED <<storeVars, pendingJob, queue, tasks, errorChannel, pc, flushArg, otherVars>>

\* The goroutine of ListenErrors takes an error off the channel and calls back.
ListenErrorsRecv ==
    /\ errorChannel # <<>>
    /\ errorChannel' = Tail(errorChannel)
    /\ UNCHANGED <<storeVars, pendingJob, queue, tasks, pc, ctxDone, flushArg, otherVars>>

----------------------------------------------------------------------------
(* Spec: the shortening service over the store, with the store's           *)
(* RemoveUsersUrls called as the deletion queue calls it.                  *)

Next ==
    \/ \E u \in URLs, usr \in Users : CallShortenURL(u, usr)
    \/ \E urls \in URLLists, usr \in Users, perm \in Perms :
          CallBatchShortenURLs(urls, usr, perm)
    \/ \E usersURLs \in RemovalMaps : StoreRemoveUsersUrls(usersURLs)
    \/ \E short \in Keys \cup {NoSuchKey} : CallGetRedirecttofullurl(short)
    \/ \E urls \in URLLists \cup {<<>>} : StoreFindShortsByFulls(urls)

Spec == Init /\ [][Next]_vars

----------------------------------------------------------------------------
(* Vocabulary of the properties.                                           *)

\* userID is among the owners recorded for the full URL.
IsOwner(c, userID, full) ==
    /\ full \in DOMAIN c.UrlsToUsersIdsMap
    /\ \E i \in 1..Len(c.UrlsToUsersIdsMap[full]) : c.UrlsToUsersIdsMap[full][i] = userID

----------------------------------------------------------------------------
(* Properties of the shortening service, checked under Spec.               *)

\* C1: every ShortenURL(u, user) call on a URL that no earlier call has shortened
\* returns no conflict, and every ShortenURL(u, user) call on a URL shortened
\* before, by the same user or another, returns the short URL of the first call
\* together with ErrConflict.
C1_SecondShortenSameKeyConflict ==
    [][\A u \in URLs, usr \in Users :
          CallShortenURL(u, usr) =>
             IF u \in DOMAIN issued
             THEN resp'.short = issued[u] /\ resp'.err = ErrConflict
             ELSE resp'.err = Nil /\ resp'.short # ZeroStr]_vars

\* A second ShortenURL of a URL has just returned the first call's short URL with
\* a conflict, and the URL now has two different owners.
C1_Witness ==
    /\ resp.op = "ShortenURL"
    /\ resp.err = ErrConflict
    /\ resp.url \in DOMAIN issued
    /\ resp.short = issued[resp.url]
    /\ \E a, b \in Users :
          /\ a # b
          /\ Contains(LookupSlice(Cache.UrlsToUsersIdsMap, resp.url), a)
          /\ Contains(LookupSlice(Cache.UrlsToUsersIdsMap, resp.url), b)

\* C7: any two distinct URLs that ShortenURL or BatchShortenURLs has shortened,
\* in whatever order, were given distinct short URLs and hold distinct short
\* keys in the store.
C7_DistinctURLsDistinctKeys ==
    \A u1, u2 \in DOMAIN issued :
        u1 # u2 =>
           /\ issued[u1] # issued[u2]
           /\ u1 \in DOMAIN Cache.FullToShort
           /\ u2 \in DOMAIN Cache.FullToShort
           /\ Cache.FullToShort[u1] # Cache.FullToShort[u2]

\* Two distinct URLs have been shortened, the second one by a batch.
C7_Witness ==
    /\ Cardinality(DOMAIN issued) >= 2
    /\ resp.op = "BatchShortenURLs"
    /\ Cardinality(resp.items) >= 2

\* C8: as long as a shortened URL u is not marked deleted, the redirect lookup of
\* the key of the short URL that ShortenURL returned for u (with or without a
\* conflict) finds u: FindFullByShort returns (u, true, nil) and GetOriginalURL
\* returns (u, nil).
C8_ShortenThenLookupRoundTrip ==
    /\ \A u \in DOMAIN issued :
          ~LookupBool(Cache.UrlsToIsDeletedMap, u) =>
             /\ FindFullByShort(Cache, GetShortURLKey(issued[u]))
                   = [full |-> u, found |-> TRUE, err |-> Nil]
             /\ GetOriginalURL(Cache, GetShortURLKey(issued[u])) = [full |-> u, err |-> Nil]
    /\ (resp.op = "ShortenURL" /\ ~LookupBool(Cache.UrlsToIsDeletedMap, resp.url)) =>
          GetOriginalURL(Cache, GetShortURLKey(resp.short)) = [full |-> resp.url, err |-> Nil]

\* ShortenURL has just returned a short URL with a conflict for a URL that is not
\* deleted, while the other URL is deleted; the lookup of the key finds the URL.
C8_Witness ==
    /\ resp.op = "ShortenURL"
    /\ resp.err = ErrConflict
    /\ ~LookupBool(Cache.UrlsToIsDeletedMap, resp.url)
    /\ \E other \in URLs : LookupBool(Cache.UrlsToIsDeletedMap, other)
    /\ GetOriginalURL(Cache, GetShortURLKey(resp.short)).full = resp.url

\* C20: ShortenURL records the caller as an owner of the URL whichever branch it
\* takes.  After the call GetUserURLs of the caller has an entry whose short URL
\* is the one returned, the formatted short key of the URL, and whose original
\* URL is that URL; it is the only entry when the caller owned nothing before,
\* as when U2 shortens a URL that U1 has shortened; and on a conflict the short
\* key is the one the URL already had.
C20_ShortenUpsertsOwnershipEitherBranch ==
    [][\A u \in URLs, usr \in Users :
          CallShortenURL(u, usr) =>
             \E entry \in {[ShortURL |-> resp'.short, OriginalURL |-> u]} :
                /\ resp'.err \in {Nil, ErrConflict}
                /\ resp'.short = GetShortURL(Lookup(Cache'.FullToShort, u))
                /\ Contains(GetUserURLs(Cache', usr), entry)
                /\ (GetUserURLs(Cache, usr) = <<>>) => (GetUserURLs(Cache', usr) = <<entry>>)
                /\ (resp'.err = ErrConflict) =>
                      resp'.short = GetShortURL(Lookup(Cache.FullToShort, u))]_vars

\* U1 has shortened URL1 and then U2 has, with a conflict: each of them is
\* listed the one entry, with the shared short URL.
C20_Witness ==
    /\ resp.op = "ShortenURL"
    /\ resp.url = URL1
    /\ resp.err = ErrConflict
    /\ GetUserURLs(Cache, "U2") = <<[ShortURL |-> resp.short, OriginalURL |-> URL1]>>
    /\ GetUserURLs(Cache, "U1") = GetUserURLs(Cache, "U2")
    /\ Cache.UrlsToUsersIdsMap[URL1] = <<"U1", "U2">>

\* The short key has been handed to some caller as the short URL of a full URL.
Inserted(short) == \E full \in DOMAIN issued : issued[full] = GetShortURL(short)

\* C24: FindFullByShort tells three outcomes apart.  For a short key never
\* inserted it returns found = false, no full URL and no error; for a mapping
\* that is not marked deleted the full URL that was shortened, found = true and
\* no error; for one marked deleted found = true and ErrURLMarkedAsDeleted.  The
\* redirect handler answers these with 404, with 307 and the full URL as
\* Location, and with 410.
C24_ThreeOutcomesOfLookup ==
    /\ [](\A short \in Keys \cup {NoSuchKey} :
             \E r \in {FindFullByShort(Cache, short)} :
                IF ~Inserted(short)
                THEN r = [full |-> ZeroStr, found |-> FALSE, err |-> Nil]
                ELSE /\ r.found
                     /\ issued[r.full] = GetShortURL(short)
                     /\ r.err \in {Nil, ErrURLMarkedAsDeleted}
                     /\ r.err = ErrURLMarkedAsDeleted
                           <=> LookupBool(Cache.UrlsToIsDeletedMap, r.full))
    /\ [][\A short \in Keys \cup {NoSuchKey} :
             CallGetRedirecttofullurl(short) =>
                \E r \in {FindFullByShort(Cache, short)} :
                   resp'.arg = IF ~r.found THEN [status |-> 404, Location |-> ZeroStr]
                               ELSE IF r.err = Nil
                                    THEN [status |-> 307, Location |-> r.full]
                               ELSE [status |-> 410, Location |-> ZeroStr]]_vars

\* A client has followed the short URL of a mapping that is marked deleted and
\* got 410, while another mapping is live.
C24_Witness ==
    /\ resp.op = "GetRedirecttofullurl"
    /\ resp.short = "k1"
    /\ resp.arg.status = 410
    /\ FindFullByShort(Cache, "k2") = [full |-> URL2, found |-> TRUE, err |-> Nil]
    /\ ~FindFullByShort(Cache, NoSuchKey).found

\* C26: BatchShortenURLs answers with exactly one item for every distinct
\* original URL of the batch, under the correlation ID of the URL's last item.
\* A URL that had a mapping keeps its short key and a UUID is inserted only for
\* the others; the item's short URL is the formatted short key of its URL, and
\* FindFullByShort of that key returns the URL; the caller is recorded as an
\* owner of every URL of the batch.
C26_BatchOneItemPerDistinctURL ==
    [][(resp'.op = "BatchShortenURLs") =>
       \A urls \in {resp'.arg.urls}, usr \in {resp'.arg.userID} :
          (\E perm \in Perms : CallBatchShortenURLs(urls, usr, perm)) =>
             /\ resp'.err = Nil
             /\ Cardinality(resp'.items) = Cardinality(Range(urls))
             /\ resp'.items =
                   {[CorrelationID |-> CorrIDs[LastIndex(urls, full)],
                     ShortURL      |-> GetShortURL(Cache'.FullToShort[full])] :
                        full \in Range(urls)}
             /\ \A full \in Range(urls) :
                   /\ full \in DOMAIN Cache.FullToShort =>
                         Cache'.FullToShort[full] = Cache.FullToShort[full]
                   /\ FindFullByShort(Cache', Cache'.FullToShort[full]).found
                   /\ FindFullByShort(Cache', Cache'.FullToShort[full]).full = full
                   /\ IsOwner(Cache', usr, full)
             /\ \A full \in DOMAIN Cache'.FullToShort \ DOMAIN Cache.FullToShort :
                   full \in Range(urls)
             /\ \A short \in DOMAIN Cache.ShortToFull :
                   Cache'.ShortToFull[short] = Cache.ShortToFull[short]
             /\ Cardinality(DOMAIN Cache'.ShortToFull) = Cardinality(DOMAIN Cache'.FullToShort)]_vars

\* A batch naming URL1 twice and URL2 once, URL1 shortened before and URL2 new,
\* has been answered with two items: URL1's under its last correlation ID with
\* the key it had, URL2's with a new key.
C26_Witness ==
    /\ resp.op = "BatchShortenURLs"
    /\ resp.arg = [urls |-> <<URL1, URL2, URL1>>, userID |-> "U2"]
    /\ resp.items = {[CorrelationID |-> "c3", ShortURL |-> GetShortURL("k1")],
                     [CorrelationID |-> "c2", ShortURL |-> GetShortURL("k2")]}
    /\ FindFullByShort(Cache, "k1").full = URL1
    /\ FindFullByShort(Cache, "k2").full = URL2
    /\ IsOwner(Cache, "U2", URL1) /\ IsOwner(Cache, "U2", URL2)
    /\ IsOwner(Cache, "U1", URL1) /\ ~IsOwner(Cache, "U1", URL2)

\* C27: FindShortsByFulls(fulls) returns the map that has, for exactly those of
\* the given URLs that have been shortened, the short key of the URL; a URL
\* with no mapping has no entry, an empty input gives the empty map, and the
\* call leaves the store as it is.
C27_FindShortsByFullsExactlyExisting ==
    [][(resp'.op = "FindShortsByFulls") =>
       \A urls \in {resp'.arg.urls}, result \in {resp'.arg.result} :
          StoreFindShortsByFulls(urls) =>
             /\ resp'.err = Nil
             /\ Cache' = Cache
             /\ DOMAIN result = Range(urls) \cap DOMAIN issued
             /\ \A full \in DOMAIN result : GetShortURL(result[full]) = issued[full]
             /\ (urls = <<>>) => (result = EmptyMap)]_vars

\* The call was given a URL that has been shortened and one that has not, and
\* returned the entry of the former only.
C27_Witness ==
    /\ resp.op = "FindShortsByFulls"
    /\ resp.arg.urls = <<URL1, URL2, URL1>>
    /\ DOMAIN resp.arg.result = {URL1}
    /\ URL2 \notin DOMAIN Cache.FullToShort

\* C35: shortening a URL whose mapping is marked deleted does not revive it.
\* ShortenURL returns the short URL of the key the URL already has, together
\* with ErrConflict, the caller is an owner of the URL afterwards, and
\* FindFullByShort of that key still finds the URL and reports it marked
\* deleted.
C35_ShortenDeletedStaysDeleted ==
    [][\A u \in URLs, usr \in Users :
          (CallShortenURL(u, usr) /\ LookupBool(Cache.UrlsToIsDeletedMap, u)) =>
             \E short \in {FindShortByFull(Cache, u).short} :
                /\ FindShortByFull(Cache, u).found
                /\ resp'.err = ErrConflict
                /\ resp'.short = GetShortURL(short)
                /\ OwnsShort(Cache', usr, short)
                /\ Contains(LookupSlice(Cache'.UsersIdsToUrlsMap, usr), u)
                /\ FindFullByShort(Cache', short) =
                      [full |-> u, found |-> TRUE, err |-> ErrURLMarkedAsDeleted]]_vars

\* U2, who did not own it, has just shortened a URL that is marked deleted: the
\* call has answered with a conflict, U2 is now an owner and the mapping is
\* still marked deleted.
C35_Witness ==
    /\ resp.op = "ShortenURL"
    /\ resp.url = URL1
    /\ resp.err = ErrConflict
    /\ LookupBool(Cache.UrlsToIsDeletedMap, URL1)
    /\ LookupSlice(Cache.UrlsToUsersIdsMap, URL1) = <<"U1", "U2">>
    /\ FindFullByShort(Cache, FindShortByFull(Cache, URL1).short).err = ErrURLMarkedAsDeleted

\* C21: GetUserUrls leaves out the mappings that are marked deleted: no entry
\* of the list returned for any user has an original URL that is marked deleted.
C21_ListingExcludesDeleted ==
    \A usr \in Users :
       \A i \in 1..Len(GetUserURLs(Cache, usr)) :
          ~LookupBool(Cache.UrlsToIsDeletedMap, GetUserURLs(Cache, usr)[i].OriginalURL)

----------------------------------------------------------------------------
(* SpecStore: the store's methods called directly, with any arguments.     *)

NextStore ==
    \/ \E short \in Keys, full \in URLs : StoreInsertURLMapping(short, full)
    \/ \E m \in NewMaps, perm \in Perms : StoreSaveNewFullsAndShorts(m, perm)
    \/ \E usr \in Users, urls \in URLLists : StoreSaveUserUrls(usr, urls)
    \/ \E usersURLs \in RemovalMaps : StoreRemoveUsersUrls(usersURLs)

SpecStore == Init /\ [][NextStore]_vars

\* SpecStability: the two shortening methods of the service and the store's
\* SaveUserUrls and RemoveUsersUrls, called one at a time in any order.
NextStability ==
    \/ \E u \in URLs, usr \in Users : CallShortenURL(u, usr)
    \/ \E urls \in URLLists, usr \in Users, perm \in Perms :
          CallBatchShortenURLs(urls, usr, perm)
    \/ \E usr \in Users, urls \in URLLists : StoreSaveUserUrls(usr, urls)
    \/ \E usersURLs \in RemovalMaps : StoreRemoveUsersUrls(usersURLs)

SpecStability == Init /\ [][NextStability]_vars

----------------------------------------------------------------------------
(* SpecTransactions: writes to the in-memory / JSON-file store with the    *)
(* transaction calls made around and between them in any order.            *)

NextTransactions ==
    \/ StoreBeginTransaction
    \/ \E short \in Keys, full \in URLs : StoreInsertURLMapping(short, full)
    \/ \E usr \in Users, full \in URLs : StoreSaveUserUrls(usr, <<full>>)
    \/ \E usr \in Users, short \in Keys :
          StoreRemoveUsersUrls([x \in {usr} |-> <<short>>])
    \/ StoreCommitTransaction
    \/ StoreRollbackTransaction

SpecTransactions == Init /\ [][NextTransactions]_vars

----------------------------------------------------------------------------
(* SpecUsers: users are created and looked up while ownership is recorded  *)
(* and mappings are marked deleted.                                        *)

\* The user IDs a request may carry: well-formed UUIDs, created or not.
UserIDs == {UUIDs[i] : i \in 1..(MaxUsers + 1)}

NextUsers ==
    \/ StoreCreateUser
    \/ \E userID \in UserIDs : StoreGetUserByID(userID)
    \/ \E full \in URLs : StoreInsertURLMapping("k1", full)
    \/ \E usr \in Users, full \in URLs : StoreSaveUserUrls(usr, <<full>>)
    \/ \E usr \in Users : StoreRemoveUsersUrls([x \in {usr} |-> <<"k1">>])

SpecUsers == Init /\ [][NextUsers]_vars

----------------------------------------------------------------------------
(* SpecConcurrent: two request goroutines, one ShortenURL call each.       *)

NextConcurrent ==
    \E r \in Requests :
       \/ \E u \in URLs, usr \in Users : ShortenBegin(r, u, usr)
       \/ ShortenFind(r)
       \/ ShortenInsertShortToFull(r)
       \/ ShortenInsertFullToShort(r)
       \/ ShortenSaveAndReturn(r)

SpecConcurrent == Init /\ [][NextConcurrent]_vars

----------------------------------------------------------------------------
(* SpecBackends: the two backends given the same sequence of calls.        *)

NextBackends ==
    \/ \E short \in Keys, full \in URLs : BothInsertURLMapping(short, full)
    \/ \E short \in Keys, full \in URLs :
          BothSaveNewFullsAndShorts([x \in {full} |-> short], <<URL1, URL2>>)
    \/ \E usr \in Users, full \in URLs : BothSaveUserUrls(usr, <<full>>)
    \/ \E usr \in Users, short \in Keys :
          BothRemoveUsersUrls([x \in {usr} |-> <<short>>])

SpecBackends == Init /\ [][NextBackends]_vars

----------------------------------------------------------------------------
(* SpecRelational: the shortening service over the relational backend,    *)
(* whose calls may fail.                                                   *)

NextRelational ==
    \/ \E u \in URLs, usr \in Users, failAt \in FailPoints :
          PGCallShortenURL(u, usr, failAt)
    \/ \E urls \in URLLists, usr \in Users, perm \in Perms, failAt \in FailPoints :
          PGCallBatchShortenURLs(urls, usr, perm, failAt)

SpecRelational == Init /\ [][NextRelational]_vars

\* SpecRelationalRemoval: ShortenURL and the store's RemoveUsersUrls over the
\* relational backend, the latter with maps that may name a user whose ID is
\* not a UUID.
RemovalUsers == Users \cup {NotAUUID}
MaxRemovalUsers == 2
PGRemovalMaps ==
    UNION {[D -> SeqsOf(Keys, 1, 1)] :
             D \in {E \in SUBSET RemovalUsers : Cardinality(E) \in 1..MaxRemovalUsers}}

NextRelationalRemoval ==
    \/ \E u \in URLs, usr \in Users : PGCallShortenURL(u, usr, "none")
    \/ \E usersURLs \in PGRemovalMaps, order \in SeqsOf(RemovalUsers, 1, MaxRemovalUsers),
          failAt \in RemovalFailPoints, failUpdate \in 0..MaxRemovalUsers :
          PGCallRemoveUsersUrls(usersURLs, order, failAt, failUpdate)

SpecRelationalRemoval == Init /\ [][NextRelationalRemoval]_vars

----------------------------------------------------------------------------
(* SpecQueue: the deletion queue at work on a store in which U1 has        *)
(* shortened URL1 and U2 has shortened URL2.  U1 asks for the deletion of  *)
(* its own key and of U2's, U2 for the deletion of U1's key.               *)

Shortened1 == ShortenURL(NewCache, 0, URL1, "U1")
Shortened2 == ShortenURL(Shortened1.cache, Shortened1.uuids, URL2, "U2")

InitQueue ==
    /\ Cache = Shortened2.cache
    /\ Tables = NewTables
    /\ inflight = NoCalls
    /\ nextUUID = Shortened2.uuids
    /\ resp = NoResp
    /\ issued = [full \in URLs |-> IF full = URL1 THEN Shortened1.short ELSE Shortened2.short]
    /\ QueueInit

\* The delete requests the handlers pass on: models.URLDeleteJob values.
Jobs == {[UserID |-> "U1", URLsToDelete |-> <<"k1", "k2">>],
         [UserID |-> "U1", URLsToDelete |-> <<"k2">>],
         [UserID |-> "U2", URLsToDelete |-> <<"k1">>]}

\* What the store's RemoveUsersUrls may return to the consumer.
DbErrs == {Nil, ErrStore}

NextQueue ==
    \/ \E job \in Jobs : CallEnqueueJob(job.UserID, job.URLsToDelete)
    \/ \E usr \in Users : EnqueueSend(usr)
    \/ \E g \in Range(Consumers) : RunReceive(g)
    \/ \E g \in Range(Consumers) : RunTickIdle(g)
    \/ \E g \in Range(Consumers) : RunTickFlush(g)
    \/ \E g \in Range(Consumers), dbErr \in DbErrs : RunFlushReturn(g, dbErr)
    \/ \E g \in Range(Consumers) : RunSendErr(g)
    \/ \E g \in Range(Consumers) : RunStop(g)
    \/ Cancel
    \/ ListenErrorsRecv

SpecQueue == InitQueue /\ [][NextQueue]_vars

\* SpecQueueFair: the same under the scheduling the Go runtime provides while
\* the consumer goroutine runs: a receive that stays ready is taken (the select
\* picks among its ready cases at random), the ticker keeps firing, and the
\* call to the store returns.
SpecQueueFair ==
    /\ SpecQueue
    /\ \A g \in Range(Consumers) :
          /\ WF_vars(RunReceive(g))
          /\ WF_vars(RunTickFlush(g))
          /\ WF_vars(\E dbErr \in DbErrs : RunFlushReturn(g, dbErr))

\* SpecRuns: the deletion queue from its creation on, with Run called any
\* number of times, by whoever holds the URLsRemover.
InitRuns ==
    /\ Cache = Shortened2.cache
    /\ Tables = NewTables
    /\ inflight = NoCalls
    /\ nextUUID = Shortened2.uuids
    /\ resp = NoResp
    /\ issued = [full \in URLs |-> IF full = URL1 THEN Shortened1.short ELSE Shortened2.short]
    /\ QueueCreated

NextRuns ==
    \/ CallRun
    \/ NextQueue

SpecRuns == InitRuns /\ [][NextRuns]_vars

\* SpecQueueStopFair: the deletion queue under the scheduling that lets a
\* consumer come back to its select and leave by it: the call to the store
\* returns, the listener of ListenErrors keeps taking errors off the channel so
\* that the send of an error completes, and the select, which picks among its
\* ready cases at random, takes the ready ctx.Done() case in the end.
SpecQueueStopFair ==
    /\ SpecQueue
    /\ WF_vars(ListenErrorsRecv)
    /\ \A g \in Range(Consumers) :
          /\ WF_vars(\E dbErr \in DbErrs : RunFlushReturn(g, dbErr))
          /\ WF_vars(RunSendErr(g))
          /\ SF_vars(RunStop(g))

\* SpecQueueServed: the deletion queue under the scheduling most favourable to
\* the callers of EnqueueJob: a sender that can send again and again does send
\* (the channel serves its blocked senders in turn), a consumer
\* that waits in its select takes a task that is ready again and again, the
\* ticker keeps firing, the store's call returns and does not fail for ever,
\* and the errors are taken off the error channel.
SpecQueueServed ==
    /\ SpecQueue
    /\ WF_vars(ListenErrorsRecv)
    /\ \A usr \in Users : SF_vars(EnqueueSend(usr))
    /\ \A g \in Range(Consumers) :
          /\ SF_vars(RunReceive(g))
          /\ WF_vars(RunTickFlush(g))
          /\ WF_vars(\E dbErr \in DbErrs : RunFlushReturn(g, dbErr))
          /\ SF_vars(RunFlushReturn(g, Nil))
          /\ WF_vars(RunSendErr(g))

----------------------------------------------------------------------------
(* Properties of the deletion queue, checked under SpecQueue and           *)
(* SpecQueueFair.                                                          *)

\* The short keys of the tasks of ts that belong to the user, in ts's order.
KeysOfUser(ts, usr) ==
    LET mine == SelectSeq(ts, LAMBDA t : t.userID = usr)
    IN  [i \in 1..Len(mine) |-> mine[i].urlToDelete]

\* C4: when the RemoveUsersUrls call of a tick returns an error, the consumer
\* clears its batch all the same (and pushes the error to the error channel),
\* so that the failed tasks are not handed to RemoveUsersUrls on a later tick.
C4_FailedFlushClearsBatch ==
    [][\A g \in Range(Consumers) : RunFlushReturn(g, ErrStore) => tasks'[g] = <<>>]_vars

\* C9: the RemoveUsersUrls call of a tick is handed all the tasks accumulated,
\* grouped by user (each user with the keys of that user's tasks, in order, and
\* no one else), in that one call; when the call succeeds the batch is emptied.
C9_FlushSendsWholeBatchGrouped ==
    [][\A g \in Range(Consumers) :
          /\ RunTickFlush(g) =>
                /\ DOMAIN flushArg'[g] = {tasks[g][i].userID : i \in 1..Len(tasks[g])}
                /\ \A usr \in DOMAIN flushArg'[g] :
                      flushArg'[g][usr] = KeysOfUser(tasks[g], usr)
                /\ tasks' = tasks
          /\ RunFlushReturn(g, Nil) =>
                /\ Cache' = RemoveUsersUrls(Cache, flushArg[g])
                /\ tasks'[g] = <<>>
                /\ flushArg'[g] = EmptyMap]_vars

\* A flush is in progress for a batch that holds tasks of both users, each user
\* handed over with its own keys.
C9_Witness ==
    \E g \in Range(Consumers) :
        /\ pc[g] = "flushing"
        /\ Len(tasks[g]) >= 2
        /\ DOMAIN flushArg[g] = Users
        /\ \A usr \in Users : flushArg[g][usr] = KeysOfUser(tasks[g], usr)

\* A task for the user and the short key is in the queue or in a consumer's
\* batch.
Enqueued(usr, short) ==
    \/ \E i \in 1..Len(queue) : queue[i] = [userID |-> usr, urlToDelete |-> short]
    \/ \E g \in Range(Consumers) : \E i \in 1..Len(tasks[g]) :
          tasks[g][i] = [userID |-> usr, urlToDelete |-> short]

\* C10: once a delete of short key S is enqueued for a user U who owns the
\* mapping of S, then in the end FindFullByShort(S) returns the full URL,
\* found = true and ErrURLMarkedAsDeleted -- unless the consumer is cancelled
\* or a call to the store fails.
C10_EnqueuedDeleteOfOwnerApplied ==
    \A usr \in Users : \A short \in Keys :
        (/\ Enqueued(usr, short)
         /\ short \in DOMAIN Cache.ShortToFull
         /\ IsOwner(Cache, usr, Cache.ShortToFull[short]))
        ~> (\/ /\ FindFullByShort(Cache, short).found
               /\ FindFullByShort(Cache, short).full \in URLs
               /\ FindFullByShort(Cache, short).err = ErrURLMarkedAsDeleted
            \/ ctxDone
            \/ \E g \in Range(Consumers) : pc[g] = "sendErr")

\* The delete that U1 enqueued for its own key has been applied by a flush that
\* succeeded, with the consumer still running.
C10_Witness ==
    /\ FindFullByShort(Cache, "k1") = [full |-> URL1, found |-> TRUE,
                                       err |-> ErrURLMarkedAsDeleted]
    /\ IsOwner(Cache, "U1", URL1)
    /\ ~ctxDone
    /\ pc[Consumers[1]] = "select"
    /\ tasks[Consumers[1]] = <<>>

\* C11: once the context is cancelled every consumer goroutine comes to return.
\* A goroutine returns only from its select and only after the cancellation;
\* once it has returned it stays so, its batch is left as it was and is never
\* handed to RemoveUsersUrls.  A RemoveUsersUrls call in progress is left only
\* by the return of that call, cancelled context or not.
C11_CancelStopsConsumerBatchLost ==
    /\ [][\A g \in Range(Consumers) :
             /\ (pc[g] = "stopped") =>
                   /\ pc'[g] = "stopped"
                   /\ tasks'[g] = tasks[g]
                   /\ flushArg'[g] = flushArg[g]
                   /\ (Cache' # Cache =>
                          \E h \in Range(Consumers) \ {g} : RunFlushReturn(h, Nil))
             /\ (pc[g] # "stopped" /\ pc'[g] = "stopped") =>
                   (ctxDone /\ pc[g] = "select" /\ RunStop(g))
             /\ (pc[g] = "flushing" /\ pc'[g] # "flushing") =>
                   \E dbErr \in DbErrs : RunFlushReturn(g, dbErr)]_vars
    /\ \A g \in Range(Consumers) :
          (ctxDone /\ pc[g] # "unstarted") ~> (pc[g] = "stopped")

\* The consumer has returned on the cancellation with a batch it had received
\* and not flushed, in a store where an earlier flush of that consumer has
\* marked a URL deleted.
C11_Witness ==
    /\ ctxDone
    /\ pc[Consumers[1]] = "stopped"
    /\ tasks[Consumers[1]] # <<>>
    /\ LookupBool(Cache.UrlsToIsDeletedMap, URL1)

\* How many times x occurs in the sequence s.
Occurrences(s, x) == Cardinality({i \in 1..Len(s) : s[i] = x})

\* C31: EnqueueJob makes exactly one task per short key of the job, each with
\* the job's user: every send puts at the end of the queue the task of the
\* caller and of the next key of the job, and takes that key, and no other, off
\* what is left to send.  collectUrlsByUser keeps the tasks: the map handed to
\* RemoveUsersUrls holds, for every user and every short key, the key under that
\* user exactly as many times as the batch holds the task (user, key), so that
\* no pair is counted for another user.
C31_OneTaskPerKeyKeptPerUser ==
    [][/\ \A job \in Jobs :
            CallEnqueueJob(job.UserID, job.URLsToDelete) =>
               /\ pendingJob'[job.UserID] = job.URLsToDelete
               /\ queue' = queue
       /\ \A usr \in Users :
            EnqueueSend(usr) =>
               /\ Len(queue') = Len(queue) + 1
               /\ SubSeq(queue', 1, Len(queue)) = queue
               /\ queue'[Len(queue')] =
                     [userID |-> usr, urlToDelete |-> Head(pendingJob[usr])]
               /\ pendingJob'[usr] = Tail(pendingJob[usr])
               /\ \A other \in Users \ {usr} : pendingJob'[other] = pendingJob[other]
       /\ \A g \in Range(Consumers) :
            RunTickFlush(g) =>
               \A holder \in Users, key \in Keys :
                  Occurrences(LookupSlice(flushArg'[g], holder), key)
                    = Occurrences(tasks[g], [userID |-> holder, urlToDelete |-> key])]_vars

\* A flush is in progress for a batch that holds the same (user, key) task
\* twice, and the map handed over holds the key twice under that user and
\* nothing under the other.
C31_Witness ==
    \E g \in Range(Consumers) :
        /\ pc[g] = "flushing"
        /\ tasks[g] = <<[userID |-> "U1", urlToDelete |-> "k2"],
                        [userID |-> "U1", urlToDelete |-> "k2"]>>
        /\ flushArg[g] = Put(EmptyMap, "U1", <<"k2", "k2">>)

\* C32: every EnqueueJob call returns in the end, whatever the size of the job
\* and however many callers there are, the calls made after the cancellation of
\* the consumer included: a caller that has keys left to send comes to have
\* none.
C32_EnqueueJobReturns ==
    \A usr \in Users : (pendingJob[usr] # <<>>) ~> (pendingJob[usr] = <<>>)

\* The consumer goroutines that have been started and have not returned.
Running == {g \in Range(Consumers) : pc[g] \in {"select", "flushing", "sendErr"}}

C13_AtMostOneConsumer ==
    /\ Cardinality({g \in Range(Consumers) : pc[g] # "unstarted"}) <= 1
    /\ Cardinality(Running) <= 1

\* C14: the task queue never holds more than channelCapacity tasks; a caller of
\* EnqueueJob with a task left to send can send it at once if the queue holds
\* fewer than channelCapacity tasks, and is blocked if it holds channelCapacity.
C14_EnqueueBlocksExactlyWhenFull ==
    /\ Len(queue) <= channelCapacity
    /\ \A usr \in Users :
          pendingJob[usr] # <<>> =>
             ((ENABLED EnqueueSend(usr)) <=> (Len(queue) < channelCapacity))

\* The queue is full and a caller of EnqueueJob, part of its job sent, is
\* blocked on the send of the next task.
C14_Witness ==
    /\ Len(queue) = channelCapacity
    /\ \E usr \in Users :
          /\ pendingJob[usr] = <<"k2">>
          /\ ~ENABLED EnqueueSend(usr)

\* C15: a consumer that has an error to publish can always publish it at once,
\* however many errors the listener's callback has left in the error channel:
\* the publication never makes the consumer wait.
C15_ErrorPublishNeverBlocks ==
    \A g \in Range(Consumers) : pc[g] = "sendErr" => ENABLED RunSendErr(g)

\* C16: a delete request is fire-and-forget.  The handler answers "accepted" at
\* the step that puts the job's last task into the queue, and that is the only
\* answer a delete request gets; the return of a flush, with or without an
\* error, changes neither the answer nor the request.  The error channel changes
\* only by a consumer publishing the one error of its failed flush at the back,
\* or by the listener taking the error at the front and handing it to the
\* callback, one call for one error; and the listener is ready to do so whenever
\* an error is waiting.
C16_DeleteIsFireAndForget ==
    /\ [][/\ \A usr \in Users :
               (EnqueueSend(usr) /\ pendingJob'[usr] = <<>>) =>
                  (resp' = Accepted /\ queue'[Len(queue')].userID = usr)
          /\ (resp' # resp) =>
                /\ resp' = Accepted
                /\ \E usr \in Users : EnqueueSend(usr) /\ pendingJob'[usr] = <<>>
          /\ \A g \in Range(Consumers), dbErr \in DbErrs :
                RunFlushReturn(g, dbErr) =>
                   /\ resp' = resp
                   /\ pendingJob' = pendingJob
                   /\ errorChannel' = errorChannel
          /\ (errorChannel' # errorChannel) =>
                \/ /\ \E g \in Range(Consumers) : pc[g] = "sendErr" /\ RunSendErr(g)
                   /\ errorChannel' = Append(errorChannel, ErrStore)
                \/ /\ ListenErrorsRecv
                   /\ errorChannel' = Tail(errorChannel)]_vars
    /\ [](errorChannel # <<>> => ENABLED ListenErrorsRecv)

\* A request has been answered "accepted", its flush has failed, the error waits
\* for the listener, and the mapping is still not marked deleted.
C16_Witness ==
    /\ resp = Accepted
    /\ errorChannel = <<ErrStore>>
    /\ \A usr \in Users : pendingJob[usr] = <<>>
    /\ \E g \in Range(Consumers) : tasks[g] # <<>> /\ pc[g] = "select"
    /\ Cache = Shortened2.cache

----------------------------------------------------------------------------
(* Properties of the store, checked under SpecStore.                       *)

\* C2: after a RemoveUsersUrls call that names short key s for a user who owns
\* the full URL that s maps to, FindFullByShort(s) returns that same full URL,
\* found = true and ErrURLMarkedAsDeleted.
C2_RemovedMappingFoundMarkedDeleted ==
    [][\A m \in {resp'.arg} :
          StoreRemoveUsersUrls(m) =>
             \A u \in DOMAIN m : \A i \in 1..Len(m[u]) :
                 (/\ m[u][i] \in DOMAIN Cache.ShortToFull
                  /\ IsOwner(Cache, u, Cache.ShortToFull[m[u][i]]))
                 => FindFullByShort(Cache', m[u][i])
                       = [full  |-> Cache.ShortToFull[m[u][i]],
                          found |-> TRUE,
                          err   |-> ErrURLMarkedAsDeleted]]_vars

\* A RemoveUsersUrls call has just named a key for an owner of its full URL, and
\* the lookup of the key reports the URL as found and marked deleted.
C2_Witness ==
    /\ resp.op = "RemoveUsersUrls"
    /\ \E u \in DOMAIN resp.arg : \E i \in 1..Len(resp.arg[u]) :
          /\ resp.arg[u][i] \in DOMAIN Cache.ShortToFull
          /\ IsOwner(Cache, u, Cache.ShortToFull[resp.arg[u][i]])
          /\ FindFullByShort(Cache, resp.arg[u][i]).found
          /\ FindFullByShort(Cache, resp.arg[u][i]).full \in URLs
          /\ FindFullByShort(Cache, resp.arg[u][i]).err = ErrURLMarkedAsDeleted

\* C3: a full URL becomes marked deleted only in a RemoveUsersUrls call in which
\* some user who is an owner of that full URL at the time of the call names a
\* short key that maps to it; a call in which only non-owners name the key
\* leaves the mapping unmarked.
C3_OnlyOwnersRequestMarksDeleted ==
    [][\A f \in DOMAIN Cache'.UrlsToIsDeletedMap :
          (Cache'.UrlsToIsDeletedMap[f] /\ ~LookupBool(Cache.UrlsToIsDeletedMap, f)) =>
             \E m \in {resp'.arg} :
                /\ StoreRemoveUsersUrls(m)
                /\ \E u \in DOMAIN m : \E i \in 1..Len(m[u]) :
                      /\ Lookup(Cache.ShortToFull, m[u][i]) = f
                      /\ IsOwner(Cache, u, f)]_vars

\* A RemoveUsersUrls call has just named, for a user who is not an owner, a key
\* whose full URL another user owns, and the full URL is not marked deleted.
C3_Witness ==
    /\ resp.op = "RemoveUsersUrls"
    /\ \E a \in DOMAIN resp.arg : \E i \in 1..Len(resp.arg[a]) :
          LET f == Lookup(Cache.ShortToFull, resp.arg[a][i])
          IN  /\ f \in URLs
              /\ ~IsOwner(Cache, a, f)
              /\ \E b \in Users \ {a} : IsOwner(Cache, b, f)
              /\ ~LookupBool(Cache.UrlsToIsDeletedMap, f)

\* C5: in every state reached by calls of InsertURLMapping,
\* SaveNewFullsAndShorts, SaveUserUrls and RemoveUsersUrls, ShortToFull and
\* FullToShort are inverses of each other, and the ownership maps and the
\* deleted flags have entries only for full URLs that FullToShort holds.
C5_MapsMutuallyConsistent ==
    /\ \A short \in DOMAIN Cache.ShortToFull :
          /\ Cache.ShortToFull[short] \in DOMAIN Cache.FullToShort
          /\ Cache.FullToShort[Cache.ShortToFull[short]] = short
    /\ \A full \in DOMAIN Cache.FullToShort :
          /\ Cache.FullToShort[full] \in DOMAIN Cache.ShortToFull
          /\ Cache.ShortToFull[Cache.FullToShort[full]] = full
    /\ DOMAIN Cache.UrlsToUsersIdsMap \subseteq DOMAIN Cache.FullToShort
    /\ \A usr \in DOMAIN Cache.UsersIdsToUrlsMap :
          Range(Cache.UsersIdsToUrlsMap[usr]) \subseteq DOMAIN Cache.FullToShort
    /\ DOMAIN Cache.UrlsToIsDeletedMap \subseteq DOMAIN Cache.FullToShort

\* C6: an InsertURLMapping(short, full) call made while the short key or the
\* full URL is already in the store returns an error and leaves the store as
\* it was.
C6_InsertExistingFails ==
    [][\A short \in Keys, full \in URLs :
          (/\ StoreInsertURLMapping(short, full)
           /\ (short \in DOMAIN Cache.ShortToFull \/ full \in DOMAIN Cache.FullToShort))
          => (resp'.err # Nil /\ Cache' = Cache)]_vars

\* C17: a SaveNewFullsAndShorts(m) call returns no error and silently ignores the
\* rows that already exist: every full URL of m that had a mapping keeps its
\* short key, even when m supplies another one, a call whose full URLs all had a
\* mapping leaves both directional maps as they were, and an empty m changes
\* nothing.
C17_SaveNewIgnoresExistingRows ==
    [][\A m \in NewMaps, perm \in Perms :
          StoreSaveNewFullsAndShorts(m, perm) =>
             /\ resp'.err = Nil
             /\ \A full \in DOMAIN m \cap DOMAIN Cache.FullToShort :
                   Cache'.FullToShort[full] = Cache.FullToShort[full]
             /\ (DOMAIN m \subseteq DOMAIN Cache.FullToShort) =>
                   /\ Cache'.FullToShort = Cache.FullToShort
                   /\ Cache'.ShortToFull = Cache.ShortToFull
             /\ (m = EmptyMap) => (Cache' = Cache)]_vars

\* C18: SaveNewFullsAndShorts(m) is idempotent: a second call with the same map,
\* in whatever order the map is ranged over, returns no error and leaves the
\* store in the state the first call left it in.
C18_SaveNewTwiceSameAsOnce ==
    [][\A m \in NewMaps, perm \in Perms :
          StoreSaveNewFullsAndShorts(m, perm) =>
             /\ resp'.err = Nil
             /\ \A perm2 \in Perms : SaveNewFullsAndShorts(Cache', m, perm2) = Cache']_vars

\* C19: SaveUserUrls is an idempotent upsert keyed by (userID, fullURL): after a
\* SaveUserUrls(userID, urls) call, the same call made again leaves the store as
\* it is, no full URL is recorded twice for the user, and GetUserUrls(userID)
\* lists every URL the user owns exactly once.
C19_SaveUserUrlsIdempotentUpsert ==
    [][\A usr \in Users, urls \in URLLists :
          StoreSaveUserUrls(usr, urls) =>
             \E listed \in {GetUserUrls(Cache', usr, Nil)} :
                /\ SaveUserUrls(Cache', usr, urls) = Cache'
                /\ \A i, j \in 1..Len(listed) :
                      listed[i].OriginalURL = listed[j].OriginalURL => i = j
                /\ \A full \in URLs :
                      IsOwner(Cache', usr, full) <=>
                         \E i \in 1..Len(listed) : listed[i].OriginalURL = full]_vars

\* C25: a mapping, once created, is never removed and never changed but for its
\* deleted flag: every step keeps every entry of ShortToFull and of FullToShort
\* as it is, and keeps every deleted flag that is set.
C25_MappingsOnlyEverFlagged ==
    [][/\ \A short \in DOMAIN Cache.ShortToFull :
            /\ short \in DOMAIN Cache'.ShortToFull
            /\ Cache'.ShortToFull[short] = Cache.ShortToFull[short]
       /\ \A full \in DOMAIN Cache.FullToShort :
            /\ full \in DOMAIN Cache'.FullToShort
            /\ Cache'.FullToShort[full] = Cache.FullToShort[full]
       /\ \A full \in DOMAIN Cache.UrlsToIsDeletedMap :
            Cache.UrlsToIsDeletedMap[full] =>
               LookupBool(Cache'.UrlsToIsDeletedMap, full)]_vars

----------------------------------------------------------------------------
(* Properties of the transaction calls, checked under SpecTransactions.    *)

\* C28: on the in-memory and file-backed store BeginTransaction,
\* CommitTransaction and RollbackTransaction return no error and leave every
\* map of the store as it is: what was written before a rollback is still
\* there after it.  Every write is in the store, and so visible, as soon as its
\* call returns, with no commit.
C28_TransactionCallsAreNoOps ==
    [][/\ (StoreBeginTransaction \/ StoreCommitTransaction \/ StoreRollbackTransaction)
            => (Cache' = Cache /\ resp'.err = Nil)
       /\ \A short \in Keys, full \in URLs :
            StoreInsertURLMapping(short, full) =>
               FindFullByShort(Cache', short).full = full]_vars

\* A rollback has returned and the mappings, the ownership and the deleted flag
\* written before it are all there.
C28_Witness ==
    /\ resp.op = "RollbackTransaction"
    /\ FindFullByShort(Cache, "k1") =
          [full |-> URL1, found |-> TRUE, err |-> ErrURLMarkedAsDeleted]
    /\ IsOwner(Cache, "U1", URL1)

----------------------------------------------------------------------------
(* Properties of the users of the store, checked under SpecUsers.          *)

\* The user IDs CreateUser has returned so far.
Created == {UUIDs[i] : i \in 1..nextUUID}

----------------------------------------------------------------------------
(* Properties of concurrent requests, checked under SpecConcurrent.        *)

\* C30: however two ShortenURL calls for the same URL, not shortened before,
\* interleave, the store has at most one short key for a full URL and one full
\* URL for a short key, and the calls that have returned for the same URL have
\* returned the same short key, the one the store has for the URL.
C30_ConcurrentShortenOneKey ==
    /\ \A full \in URLs :
          Cardinality({short \in DOMAIN Cache.ShortToFull :
                          Cache.ShortToFull[short] = full}) <= 1
    /\ \A r1, r2 \in Requests :
          (/\ inflight[r1].pc = "returned"
           /\ inflight[r2].pc = "returned"
           /\ inflight[r1].urlToShort = inflight[r2].urlToShort)
          => /\ inflight[r1].short = inflight[r2].short
             /\ inflight[r1].short = Lookup(Cache.FullToShort, inflight[r1].urlToShort)

----------------------------------------------------------------------------
(* Properties of the two backends side by side, checked under SpecBackends. *)

\* What a caller can see of the in-memory / JSON-file store is what it can see
\* of the relational one: the same answer to every lookup and the same entries,
\* each once, in every user's list.
SameAnswers ==
    /\ \A short \in Keys : FindFullByShort(Cache, short) = PGFindFullByShort(Tables, short)
    /\ \A full \in URLs : FindShortByFull(Cache, full) = PGFindShortByFull(Tables, full)
    /\ \A urls \in URLLists :
          FindShortsByFulls(Cache, urls) = PGFindShortsByFulls(Tables, urls)
    /\ \A usr \in Users :
          /\ Range(GetUserUrls(Cache, usr, Nil)) = PGGetUserUrls(Tables, usr)
          /\ Len(GetUserUrls(Cache, usr, Nil)) = Cardinality(PGGetUserUrls(Tables, usr))

\* C22: the backends have identical observable semantics: after every sequence
\* of store calls made on both, every lookup and every user's list is the same
\* on both, and every call returns an error on the one exactly when it does on
\* the other.
C22_BackendsObservablyEqual ==
    /\ []SameAnswers
    /\ [][/\ \A short \in Keys, full \in URLs :
               BothInsertURLMapping(short, full) =>
                  (resp'.err = Nil <=> PGInsertURLMapping(Tables, short, full).err = Nil)
          /\ \A usr \in Users, full \in URLs :
               BothSaveUserUrls(usr, <<full>>) =>
                  (resp'.err = Nil <=> PGSaveUserUrls(Tables, usr, <<full>>).err = Nil)]_vars

----------------------------------------------------------------------------
(* Properties of the service over the relational backend, checked under    *)
(* SpecRelational.                                                         *)

\* C23: on the write path a store error rolls the transaction back before it is
\* returned.  A ShortenURL or BatchShortenURLs call that returns a store error
\* leaves the tables exactly as they were, whichever store call failed; so no
\* mapping is ever left without an owner, and no part of a failed batch stays.
C23_FailedWriteLeavesNothing ==
    /\ [][(resp' # resp /\ resp'.err \notin {Nil, ErrConflict}) => Tables' = Tables]_vars
    /\ [](\A row \in Tables.url_redirects :
             \E own \in Tables.users_urls : own.url = row.original_url)

\* A batch for a URL already shortened and a new one has failed at the saving
\* of the ownership rows, after the new mapping was inserted in the
\* transaction: the new URL has no mapping.
C23_Witness ==
    /\ resp.op = "BatchShortenURLs"
    /\ resp.err = ErrStore
    /\ resp.arg.failAt = "save"
    /\ PGFindShortByFull(Tables, URL1).found
    /\ ~PGFindShortByFull(Tables, URL2).found
    /\ [user_id |-> "U2", url |-> URL1] \notin Tables.users_urls

----------------------------------------------------------------------------
(* Properties of the relational RemoveUsersUrls, checked under             *)
(* SpecRelationalRemoval.                                                  *)

\* C33: the relational RemoveUsersUrls is all-or-nothing and always closes its
\* transaction: by every return the transaction it has opened is committed or
\* rolled back, and when it returns an error (a failed update, an unparseable
\* user ID) no mapping of the batch has become marked deleted.
C33_RemovalClosesItsTransaction ==
    [][resp'.op = "RemoveUsersUrls" =>
          /\ resp'.arg.tx \in {"none", "committed", "rolledBack"}
          /\ (resp'.err # Nil => Tables' = Tables)]_vars

----------------------------------------------------------------------------
(* Properties of the shortening methods among the store's ownership and    *)
(* removal calls, checked under SpecStability.                             *)

\* C34: short keys are stable.  Once a full URL has a short key, no later
\* ShortenURL, BatchShortenURLs, SaveUserUrls or RemoveUsersUrls call, made one
\* at a time, changes the short key found for the URL, and that short key keeps
\* resolving to the URL; the short URL first handed out for a URL stays the
\* short URL of the key the store holds for it.
C34_ShortKeyStable ==
    /\ [](\A full \in DOMAIN issued :
             /\ FindShortByFull(Cache, full).found
             /\ GetShortURL(FindShortByFull(Cache, full).short) = issued[full])
    /\ [][\A full \in URLs :
             FindShortByFull(Cache, full).found =>
                /\ FindShortByFull(Cache', full) = FindShortByFull(Cache, full)
                /\ FindFullByShort(Cache', FindShortByFull(Cache, full).short).found
                /\ FindFullByShort(Cache', FindShortByFull(Cache, full).short).full = full]_vars

\* Both URLs have short keys, the first one is marked deleted, and a
\* BatchShortenURLs call made after that has answered with the short URL first
\* handed out for it.
C34_Witness ==
    /\ DOMAIN issued = URLs
    /\ LookupBool(Cache.UrlsToIsDeletedMap, URL1)
    /\ resp.op = "BatchShortenURLs"
    /\ \E item \in resp.items : item.ShortURL = issued[URL1]
    /\ GetShortURL(Cache.FullToShort[URL1]) = issued[URL1]

\* C36: RemoveUsersUrls changes nothing but deleted flags.  It leaves the
\* short-to-full map, the full-to-short map, the users and both ownership maps
\* as they are and returns no error; a deleted flag changes only for the full
\* URL of a named short key that the naming user owns; and a call of which
\* every (user, short key) pair names a short key that does not exist or that
\* the user does not own changes no state at all.
C36_RemovalTouchesOnlyFlags ==
    [][\A m \in {resp'.arg} :
          (resp'.op = "RemoveUsersUrls" /\ StoreRemoveUsersUrls(m)) =>
             /\ resp'.err = Nil
             /\ Cache'.ShortToFull = Cache.ShortToFull
             /\ Cache'.FullToShort = Cache.FullToShort
             /\ Cache'.Users = Cache.Users
             /\ Cache'.UsersIdsToUrlsMap = Cache.UsersIdsToUrlsMap
             /\ Cache'.UrlsToUsersIdsMap = Cache.UrlsToUsersIdsMap
             /\ \A full \in URLs \cup {ZeroStr} :
                   (\A p \in RequestedPairs(m) :
                       ~(OwnsShort(Cache, p[1], p[2]) /\ Lookup(Cache.ShortToFull, p[2]) = full))
                   => /\ (full \in DOMAIN Cache'.UrlsToIsDeletedMap)
                           = (full \in DOMAIN Cache.UrlsToIsDeletedMap)
                      /\ LookupBool(Cache'.UrlsToIsDeletedMap, full)
                           = LookupBool(Cache.UrlsToIsDeletedMap, full)
             /\ (\A p \in RequestedPairs(m) :
                    \/ p[2] \notin DOMAIN Cache.ShortToFull
                    \/ ~OwnsShort(Cache, p[1], p[2]))
                => Cache' = Cache]_vars

\* A RemoveUsersUrls call has just named k1 for its owner U1 and, for U2, the
\* short key k2 that does not exist: k1's URL is marked deleted, nothing else
\* has a flag, and the maps hold what the one ShortenURL call before had put.
C36_Witness ==
    /\ resp.op = "RemoveUsersUrls"
    /\ DOMAIN resp.arg = Users
    /\ resp.arg["U1"] = <<"k1">>
    /\ resp.arg["U2"] = <<"k2">>
    /\ DOMAIN Cache.ShortToFull = {"k1"}
    /\ OwnsShort(Cache, "U1", "k1")
    /\ DOMAIN Cache.UrlsToIsDeletedMap = {Cache.ShortToFull["k1"]}
    /\ Cache.UrlsToIsDeletedMap[Cache.ShortToFull["k1"]]

====
